---- MODULE Spec2Model ----
(***************************************************************************)
(* Model of pyqmc's JAX Slater-determinant wavefunction                    *)
(* (src/pyqmc/jax/slater.py): the determinant evaluation, the CI combiner, *)
(* the single-electron update formulas, the Sherman-Morrison row update,   *)
(* the parameter map and the JAXSlater object with its cached state.       *)
(*                                                                         *)
(* Arithmetic is exact.  A number is a pair <<n, d>> in lowest terms with  *)
(* d >= 0; d = 0 encodes the IEEE specials the code can produce:           *)
(* <<1, 0>> = +inf, <<-1, 0>> = -inf, <<0, 0>> = NaN.  Signed zeros are    *)
(* not distinguished.  A log-magnitude log(q) is kept symbolically as the  *)
(* record [log |-> q] (q >= 0 or NaN), so that log(a) + log(b) =           *)
(* log(a * b), log(0) = -inf and -inf - (-inf) = NaN hold exactly as in    *)
(* the floating-point code, without rounding.                              *)
(***************************************************************************)
EXTENDS Integers, Sequences, FiniteSets, TLC

(***************************************************************************)
(* Exact extended arithmetic (the float64 operations of jax.numpy).        *)
(***************************************************************************)
RECURSIVE GCD(_, _)
GCD(a, b) == IF b = 0 THEN a ELSE GCD(b, a % b)

IAbs(n) == IF n < 0 THEN -n ELSE n

ISgn(n) == IF n > 0 THEN 1 ELSE IF n < 0 THEN -1 ELSE 0

Norm(n, d) ==
    IF d = 1 THEN <<n, 1>>
    ELSE IF d = 0 THEN <<ISgn(n), 0>>
    ELSE LET s == IF d < 0 THEN -1 ELSE 1
             g == GCD(IAbs(n), IAbs(d))
         IN  <<(s * n) \div g, (s * d) \div g>>

Zero == <<0, 1>>

One == <<1, 1>>

NaN == <<0, 0>>

PInf == <<1, 0>>

NInf == <<-1, 0>>

Num(n) == <<n, 1>>

IsNaN(a) == a = NaN

IsFinite(a) == a[2] # 0

Mul(a, b) == Norm(a[1] * b[1], a[2] * b[2])

Neg(a) == <<-a[1], a[2]>>

Add(a, b) ==
    IF a[2] = 0 /\ b[2] = 0 THEN (IF a = b THEN a ELSE NaN)
    ELSE IF a[2] = 0 THEN a
    ELSE IF b[2] = 0 THEN b
    ELSE IF a[2] = 1 /\ b[2] = 1 THEN <<a[1] + b[1], 1>>
    ELSE Norm(a[1] * b[2] + b[1] * a[2], a[2] * b[2])

Sub(a, b) == Add(a, Neg(b))

\* 1/a: 1/0 = +inf, 1/inf = 0, 1/NaN = NaN
Recip(a) ==
    IF a = NaN THEN NaN
    ELSE IF a[1] = 0 THEN PInf
    ELSE IF a[1] > 0 THEN <<a[2], a[1]>>
    ELSE <<-a[2], -a[1]>>

Div(a, b) == Mul(a, Recip(b))

\* jnp.sign: -1, 0, 1, NaN for NaN
SignOf(a) == IF a = NaN THEN NaN ELSE <<ISgn(a[1]), 1>>

\* jnp.abs
AbsOf(a) == <<IAbs(a[1]), a[2]>>

\* a < b on non-NaN numbers
Less(a, b) ==
    IF a[2] = 0 /\ b[2] = 0 THEN a[1] < b[1]
    ELSE a[1] * b[2] < b[1] * a[2]

\* jnp.max of two numbers: NaN propagates
Max2(a, b) ==
    IF a = NaN \/ b = NaN THEN NaN ELSE IF Less(a, b) THEN b ELSE a

\* the sequence s itself, with its elements evaluated once
Tup(s) == SubSeq(s, 1, Len(s))

\* F applied to the value of v: an intermediate result computed once
With(v, F(_)) == CHOOSE r \in {F(x) : x \in {v}} : TRUE

RECURSIVE SumSeq(_)
SumSeq(s) == IF s = <<>> THEN Zero ELSE Add(Head(s), SumSeq(Tail(s)))

RECURSIVE MaxSeq(_)
MaxSeq(s) == IF Len(s) = 1 THEN s[1] ELSE Max2(s[1], MaxSeq(Tail(s)))

RECURSIVE Flatten(_)
Flatten(ss) == IF ss = <<>> THEN <<>> ELSE Head(ss) \o Flatten(Tail(ss))

(***************************************************************************)
(* Log-domain values: [log |-> q] stands for log(q).                       *)
(***************************************************************************)
\* jnp.log(x) for x >= 0 (the code only takes the log of an absolute value)
Log(x) == [log |-> x]

\* jnp.exp
Exp(l) == l.log

\* l1 + l2 in the log domain
LAdd(l1, l2) == Log(Mul(l1.log, l2.log))

\* l1 - l2 in the log domain
LSub(l1, l2) == Log(Div(l1.log, l2.log))

\* jnp.max over a sequence of log-domain values
LMax(ls) == Log(MaxSeq(Tup([i \in 1..Len(ls) |-> ls[i].log])))

LNegInf == Log(Zero)

LNaN == Log(NaN)

(***************************************************************************)
(* Vectors and matrices (sequences of rows), indexed from 0 as in the code.*)
(***************************************************************************)
\* jnp.take(v, idx, axis=-1) on a vector: idx holds 0-based indices
Take(v, idx) == Tup([k \in 1..Len(idx) |-> v[idx[k] + 1]])

\* jnp.take(m, idx, axis=1) on a matrix
TakeCols(m, idx) == Tup([r \in 1..Len(m) |-> Take(m[r], idx)])

\* vector @ vector
Dot(u, v) == SumSeq(Tup([k \in 1..Len(u) |-> Mul(u[k], v[k])]))

\* m[:, j] with 0-based j
Column(m, j) == Tup([k \in 1..Len(m) |-> m[k][j + 1]])

\* jnp.dot(a, b) for a of shape (n, k) and b of shape (k, m)
MatMul(a, b) ==
    Tup([r \in 1..Len(a) |-> Tup([c \in 1..Len(b[1]) |-> Dot(a[r], Column(b, c - 1))])])

DropAt(s, i) == Tup([k \in 1..(Len(s) - 1) |-> IF k < i THEN s[k] ELSE s[k + 1]])

Minor(m, i, j) == Tup([r \in 1..(Len(m) - 1) |-> DropAt(DropAt(m, i)[r], j)])

Det2(m) == Sub(Mul(m[1][1], m[2][2]), Mul(m[1][2], m[2][1]))

\* the determinant by expansion along the first row (matrices up to 3 x 3)
Det(m) ==
    IF Len(m) = 0 THEN One
    ELSE IF Len(m) = 1 THEN m[1][1]
    ELSE IF Len(m) = 2 THEN Det2(m)
    ELSE Add(Sub(Mul(m[1][1], Det2(Minor(m, 1, 1))),
                 Mul(m[1][2], Det2(Minor(m, 1, 2)))),
             Mul(m[1][3], Det2(Minor(m, 1, 3))))

NaNMatrix(n) == Tup([r \in 1..n |-> Tup([c \in 1..n |-> NaN])])

\* jnp.linalg.inv in exact arithmetic.  A singular matrix does not raise:
\* the LU solve divides by a zero pivot and returns non-finite entries,
\* which every later product turns into NaN; they are kept as NaN.
Inv(m) ==
    With(Det(m), LAMBDA d :
        IF d = Zero THEN NaNMatrix(Len(m))
        ELSE Tup([r \in 1..Len(m) |-> Tup([c \in 1..Len(m) |->
                 Div(Mul(Num(IF (r + c) % 2 = 0 THEN 1 ELSE -1),
                         Det(Minor(m, c, r))), d)])]))

\* jnp.linalg.slogdet: sign 0 and logabsdet -inf for a singular matrix
SLogDet(m) ==
    With(Det(m), LAMBDA d : [sign |-> SignOf(d), logabsdet |-> Log(AbsOf(d))])

(***************************************************************************)
(* The orbital evaluator (pyqmc.jax.gto, an external collaborator): three  *)
(* basis functions 1, x, x^2 of a one-dimensional coordinate, with their   *)
(* first and second derivatives.  Each evaluator returns the list of its   *)
(* derivative components (one component for a one-dimensional coordinate). *)
(***************************************************************************)
gto_1e(x) == <<Num(1), Num(x), Num(x * x)>>

gto_1e_grad(x) == <<Num(0), Num(1), Num(2 * x)>>

gto_1e_laplacian(x) == <<Num(0), Num(0), Num(2)>>

gto_components(kind, x) ==
    IF kind = "value" THEN <<gto_1e(x)>>
    ELSE IF kind = "grad" THEN <<gto_1e_grad(x)>>
    ELSE <<gto_1e_laplacian(x)>>

\* jax.vmap(gto_1e) over electrons
gto_ne(xyz) == Tup([e \in 1..Len(xyz) |-> gto_1e(xyz[e])])

(***************************************************************************)
(* Evaluating the determinants                                             *)
(***************************************************************************)
_compute_one_determinant(mos, det) == SLogDet(TakeCols(mos, det))

_compute_inverse(mos, det) == Inv(TakeCols(mos, det))

compute_determinants(mo_coeff, determinants, xyz) ==
    With(IF Len(xyz) = 0 THEN <<>> ELSE MatMul(gto_ne(xyz), mo_coeff), LAMBDA mos :
    With(Tup([k \in 1..Len(determinants) |->
             _compute_one_determinant(mos, determinants[k])]), LAMBDA dets :
        [mo_values |-> mos,
         sign |-> Tup([k \in 1..Len(determinants) |-> dets[k].sign]),
         logabsdet |-> Tup([k \in 1..Len(determinants) |-> dets[k].logabsdet]),
         inverse |-> Tup([k \in 1..Len(determinants) |->
                         _compute_inverse(mos, determinants[k])])]))

\* the log-sum-exp-with-sign combination of lines 98-104
combine_logdets(dets_up, dets_down, expansion) ==
    Tup([i \in 1..Len(expansion.mapping_up) |->
        LAdd(Take(dets_up.logabsdet, expansion.mapping_up)[i],
             Take(dets_down.logabsdet, expansion.mapping_down)[i])])

combine_signdets(dets_up, dets_down, expansion) ==
    Tup([i \in 1..Len(expansion.mapping_up) |->
        Mul(Take(dets_up.sign, expansion.mapping_up)[i],
            Take(dets_down.sign, expansion.mapping_down)[i])])

\* jnp.sum(ci_coeff * signdets * jnp.exp(logdets - ref))
ci_sum(ci_coeff, signdets, logdets, ref) ==
    SumSeq(Tup([i \in 1..Len(logdets) |->
        Mul(Mul(ci_coeff[i], signdets[i]), Exp(LSub(logdets[i], ref)))]))

SubSeqFrom(s, k) == Tup([i \in 1..(Len(s) - k) |-> s[i + k]])

evaluate_expansion(expansion, nelec, det_params, xyz) ==
    With(compute_determinants(det_params.mo_coeff_alpha,
             expansion.determinants_up, SubSeq(xyz, 1, nelec[1])), LAMBDA dets_up :
    With(compute_determinants(det_params.mo_coeff_beta,
             expansion.determinants_down, SubSeqFrom(xyz, nelec[1])), LAMBDA dets_down :
    With(combine_logdets(dets_up, dets_down, expansion), LAMBDA logdets :
    With(combine_signdets(dets_up, dets_down, expansion), LAMBDA signdets :
    With(LMax(logdets), LAMBDA ref :
    With(ci_sum(det_params.ci_coeff, signdets, logdets, ref), LAMBDA values :
        [sign |-> SignOf(values),
         logabs |-> LAdd(Log(AbsOf(values)), ref),
         dets_up |-> dets_up,
         dets_down |-> dets_down]))))))

(***************************************************************************)
(* Single-electron update formulas                                         *)
(***************************************************************************)
\* the positions a traced index i can read in an axis of size n.  A negative
\* index counts from the end; an index that is still out of bounds does not
\* raise inside a compiled function: the gather either clamps it to the
\* nearest valid position or fills the result with NaN (position n here),
\* depending on the gather mode of the jax build.
traced_index(i, n) ==
    IF i < 0 /\ i + n >= 0 THEN {i + n}
    ELSE IF i < 0 THEN {0, n}
    ELSE IF i < n THEN {i}
    ELSE {n - 1, n}

\* inverse[:, e] for a position e given by traced_index
gather_column(m, e) ==
    IF e = Len(m) THEN Tup([k \in 1..Len(m) |-> NaN]) ELSE Column(m, e)

\* ratio of the determinant with electron e changed to the new orbitals mos
\* variant contracting with row e of the inverse instead of column e
determinant_lemma_row(mos, inverse, det, e) ==
    Dot(Take(mos, det), inverse[e + 1])

_determinant_lemma(mos, inverse, det, e) ==
    Dot(Take(mos, det), gather_column(inverse, e))

vmap_lemma(mos, inverses, determinants, e) ==
    Tup([k \in 1..Len(determinants) |->
        _determinant_lemma(mos, inverses[k], determinants[k], e)])

\* jnp.dot(aos.T, mo_coeff): one row of orbital values per derivative component
orbital_rows(kind, mo_coeff, xyz) == MatMul(gto_components(kind, xyz), mo_coeff)

\* the body shared by testvalue_up and testvalue_down once the moved spin's
\* new signs and log-magnitudes (one list per derivative component) are known
testvalue_combine(expansion, det_params, dets_up, dets_down, logdets, signdets) ==
    With(combine_logdets(dets_up, dets_down, expansion), LAMBDA logdets_old :
    With(combine_signdets(dets_up, dets_down, expansion), LAMBDA signdets_old :
    With(LMax(Flatten(logdets) \o logdets_old), LAMBDA ref :
    With(ci_sum(det_params.ci_coeff, signdets_old, logdets_old, ref), LAMBDA values_old :
        Tup([c \in 1..Len(logdets) |->
            Div(ci_sum(det_params.ci_coeff, signdets[c], logdets[c], ref),
                values_old)])))))

\* sign * jnp.sign(ratios) and logabsdet + jnp.log(jnp.abs(ratios)) of the moved
\* spin's determinants, for each derivative component
moved_signs(ratios, dets) ==
    Tup([c \in 1..Len(ratios) |-> Tup([k \in 1..Len(dets.sign) |->
        Mul(SignOf(ratios[c][k]), dets.sign[k])])])

moved_logabs(ratios, dets) ==
    Tup([c \in 1..Len(ratios) |-> Tup([k \in 1..Len(dets.sign) |->
        LAdd(dets.logabsdet[k], Log(AbsOf(ratios[c][k])))])])

testvalue_up(kind, expansion, det_params, dets_up, dets_down, e, xyz) ==
    With(orbital_rows(kind, det_params.mo_coeff_alpha, xyz), LAMBDA mos :
    With(Tup([c \in 1..Len(mos) |->
             vmap_lemma(mos[c], dets_up.inverse, expansion.determinants_up, e)]),
         LAMBDA ratios :
    With(moved_signs(ratios, dets_up), LAMBDA newsigns :
    With(moved_logabs(ratios, dets_up), LAMBDA newlogabs :
        [ratio |-> testvalue_combine(expansion, det_params, dets_up, dets_down,
             Tup([c \in 1..Len(mos) |-> Tup([i \in 1..Len(expansion.mapping_up) |->
                 LAdd(Take(newlogabs[c], expansion.mapping_up)[i],
                      Take(dets_down.logabsdet, expansion.mapping_down)[i])])]),
             Tup([c \in 1..Len(mos) |-> Tup([i \in 1..Len(expansion.mapping_up) |->
                 Mul(Take(newsigns[c], expansion.mapping_up)[i],
                     Take(dets_down.sign, expansion.mapping_down)[i])])])),
         mos |-> mos]))))

testvalue_down(kind, expansion, det_params, dets_up, dets_down, e, xyz) ==
    With(orbital_rows(kind, det_params.mo_coeff_beta, xyz), LAMBDA mos :
    With(Tup([c \in 1..Len(mos) |->
             vmap_lemma(mos[c], dets_down.inverse, expansion.determinants_down, e)]),
         LAMBDA ratios :
    With(moved_signs(ratios, dets_down), LAMBDA newsigns :
    With(moved_logabs(ratios, dets_down), LAMBDA newlogabs :
        [ratio |-> testvalue_combine(expansion, det_params, dets_up, dets_down,
             Tup([c \in 1..Len(mos) |-> Tup([i \in 1..Len(expansion.mapping_up) |->
                 LAdd(Take(dets_up.logabsdet, expansion.mapping_up)[i],
                      Take(newlogabs[c], expansion.mapping_down)[i])])]),
             Tup([c \in 1..Len(mos) |-> Tup([i \in 1..Len(expansion.mapping_up) |->
                 Mul(Take(dets_up.sign, expansion.mapping_up)[i],
                     Take(newsigns[c], expansion.mapping_down)[i])])])),
         mos |-> mos]))))

(***************************************************************************)
(* Sherman-Morrison update formulas                                        *)
(***************************************************************************)
\* a row update that leaves out the final invnew.at[:, e].set(inv_ratio)
sherman_morrison_without_set(e, inverse, mos, determinant) ==
    With(Take(mos, determinant), LAMBDA vec :
    With(Tup([j \in 1..Len(inverse) |-> Dot(vec, Column(inverse, j - 1))]), LAMBDA tmp :
    With(Tup([k \in 1..Len(inverse) |-> Div(inverse[k][e + 1], tmp[e + 1])]),
         LAMBDA inv_ratio :
        [ratio |-> tmp[e + 1],
         invnew |-> Tup([k \in 1..Len(inverse) |-> Tup([j \in 1..Len(inverse) |->
                        Sub(inverse[k][j], Mul(inv_ratio[k], tmp[j]))])])])))

_sherman_morrison_row(e, inverse, mos, determinant) ==
    With(Take(mos, determinant), LAMBDA vec :
    With(Tup([j \in 1..Len(inverse) |-> Dot(vec, Column(inverse, j - 1))]), LAMBDA tmp :
    With(tmp[e + 1], LAMBDA ratio :
    With(Tup([k \in 1..Len(inverse) |-> Div(inverse[k][e + 1], ratio)]),
         LAMBDA inv_ratio :
    With(Tup([k \in 1..Len(inverse) |-> Tup([j \in 1..Len(inverse) |->
             Sub(inverse[k][j], Mul(inv_ratio[k], tmp[j]))])]), LAMBDA invnew :
        [ratio |-> ratio,
         invnew |-> Tup([k \in 1..Len(inverse) |-> Tup([j \in 1..Len(inverse) |->
                        IF j = e + 1 THEN inv_ratio[k] ELSE invnew[k][j]])])])))))

\* vmap over configurations (outer) and determinants (inner)
sherman_morrison_row(e, inverses, mos, determinants) ==
    Tup([i \in 1..Len(inverses) |-> Tup([k \in 1..Len(determinants) |->
        _sherman_morrison_row(e, inverses[i][k], mos[i], determinants[k])])])

(***************************************************************************)
(* The JAXSlater object: parameters (the _parameterMap), the expansion and *)
(* the cached state of the last full evaluation, one entry per             *)
(* configuration of the batch.  lastcall, ret and cached observe the       *)
(* calls: the last method called with its arguments, what it returned, and *)
(* the configurations and parameters the cache was last computed from.     *)
(***************************************************************************)
VARIABLES parameters, jax_parameters, self_expansion,
          _sign, _logabs, _dets_up, _dets_down,
          lastcall, ret, cached, threads

vars == <<parameters, jax_parameters, self_expansion,
          _sign, _logabs, _dets_up, _dets_down, lastcall, ret, cached, threads>>

cache == <<_sign, _logabs, _dets_up, _dets_down>>

None == <<>>

\* mol.nelec: two up electrons, one down electron
_nelec == <<2, 1>>

Electrons == 0..(_nelec[1] + _nelec[2] - 1)

\* the electron indices a caller may pass: the valid ones and one on each side
ElectronArgs == (-1)..(_nelec[1] + _nelec[2])

\* largest coordinate value of an electron
MaxPos == 1

Pos == 0..MaxPos

\* the coordinates of one configuration, and batches of n configurations
Walkers(P) == [1..(_nelec[1] + _nelec[2]) -> P]

Batches(n, P) == [1..n -> Walkers(P)]

Masks(n) == [1..n -> BOOLEAN]

\* mf.mo_coeff and a second set of orbital coefficients (nbasis x norb)
MOCoeffA ==
    <<<<Num(1), Num(0), Num(0)>>,
      <<Num(0), Num(1), Num(0)>>,
      <<Num(0), Num(0), Num(1)>>>>

MOCoeffB ==
    <<<<Num(0), Num(1), Num(0)>>,
      <<Num(2), Num(0), Num(0)>>,
      <<Num(0), Num(1), Num(1)>>>>

\* m[:, :n]
TruncCols(m, n) == Tup([r \in 1..Len(m) |-> SubSeq(m[r], 1, n)])

RECURSIVE IMaxSeq(_)
IMaxSeq(s) ==
    IF Len(s) = 1 THEN s[1]
    ELSE LET t == IMaxSeq(Tail(s)) IN IF s[1] > t THEN s[1] ELSE t

RECURSIVE IMinSeq(_)
IMinSeq(s) ==
    IF Len(s) = 1 THEN s[1]
    ELSE LET t == IMinSeq(Tail(s)) IN IF s[1] < t THEN s[1] ELSE t

\* jnp.max(determinants) + 1: the number of orbitals kept
NOrb(exp) ==
    IMaxSeq(Flatten(exp.determinants_up) \o Flatten(exp.determinants_down)) + 1

DeterminantParameters(ci_coeff, mo_coeff_alpha, mo_coeff_beta) ==
    [ci_coeff |-> ci_coeff,
     mo_coeff_alpha |-> mo_coeff_alpha,
     mo_coeff_beta |-> mo_coeff_beta]

\* the single determinant create_wf_evaluator builds (mc = None)
SingleDeterminant ==
    [mapping_up |-> <<0>>, mapping_down |-> <<0>>,
     determinants_up |-> <<<<0, 1>>>>, determinants_down |-> <<<<0>>>>]

\* a two-term CI expansion over two up and two down determinants
TwoTermExpansion ==
    [mapping_up |-> <<0, 1>>, mapping_down |-> <<0, 1>>,
     determinants_up |-> <<<<0, 1>>, <<0, 2>>>>,
     determinants_down |-> <<<<0>>, <<1>>>>]

\* the arrays a caller may assign to a parameter key
Items(key, exp) ==
    IF key = "det_coeff"
    THEN IF Len(exp.mapping_up) = 1
         THEN {<<Num(1)>>, <<Num(-2)>>}
         ELSE {<<Num(1), Num(1)>>, <<Num(1), Num(-1)>>}
    ELSE {TruncCols(MOCoeffA, NOrb(exp)), TruncCols(MOCoeffB, NOrb(exp))}

Keys == {"det_coeff", "mo_coeff_alpha", "mo_coeff_beta"}

\* _parameterMap.__init__
parameterMap_init(jp) ==
    [k \in Keys |-> IF k = "det_coeff" THEN jp.ci_coeff
                    ELSE IF k = "mo_coeff_alpha" THEN jp.mo_coeff_alpha
                    ELSE jp.mo_coeff_beta]

\* create_wf_evaluator (mc = None: one determinant with coefficient 1.0, the
\* same orbital coefficients for both spins) and JAXSlater.__init__
JAXSlater_init ==
    /\ self_expansion = SingleDeterminant
    /\ jax_parameters = DeterminantParameters(<<Num(1)>>,
                            TruncCols(MOCoeffA, NOrb(SingleDeterminant)),
                            TruncCols(MOCoeffA, NOrb(SingleDeterminant)))
    /\ parameters = parameterMap_init(jax_parameters)
    /\ _sign = None
    /\ _logabs = None
    /\ _dets_up = None
    /\ _dets_down = None
    /\ lastcall = [op |-> "__init__"]
    /\ ret = None
    /\ cached = [xyz |-> None, params |-> jax_parameters]

\* one caller: no thread is inside a method between two steps
Init == JAXSlater_init /\ threads = None

(***************************************************************************)
(* _parameterMap                                                           *)
(***************************************************************************)
\* the power of two by which a numerator is shifted to fit float32's 24-bit
\* significand
RECURSIVE significand_shift(_)
significand_shift(n) == IF n < 16777216 THEN 1 ELSE 2 * significand_shift(n \div 2)

\* the nearest float32 (ties to even) of a double; a value whose numerator
\* fits the significand is held by both precisions
float32(q) ==
    IF ~IsFinite(q) \/ IAbs(q[1]) < 16777216 THEN q
    ELSE With(significand_shift(IAbs(q[1])), LAMBDA sh :
         With(IAbs(q[1]) \div sh, LAMBDA lo :
         With(IAbs(q[1]) % sh, LAMBDA r :
            Norm(ISgn(q[1]) * sh * (IF 2 * r > sh \/ (2 * r = sh /\ lo % 2 = 1)
                                   THEN lo + 1 ELSE lo), q[2]))))

\* jnp.array(a) of an array of ndim axes: the device array of JAX's default
\* float type, float64 when jax_enable_x64 is set and float32 otherwise
RECURSIVE jnp_array(_, _, _)
jnp_array(x64, a, ndim) ==
    IF ndim = 0 THEN IF x64 THEN a ELSE float32(a)
    ELSE Tup([i \in 1..Len(a) |-> jnp_array(x64, a[i], ndim - 1)])

\* an assignment that updates the dictionary but not jax_parameters
setitem_without_refresh(key, item) ==
    /\ parameters' = [parameters EXCEPT ![key] = item]
    /\ ret' = None
    /\ lastcall' = [op |-> "__setitem__", key |-> key]
    /\ UNCHANGED <<threads, jax_parameters, self_expansion,
                   _sign, _logabs, _dets_up, _dets_down, cached>>

parameterMap_setitem(key, item) ==
    /\ parameters' = [parameters EXCEPT ![key] = item]
    /\ \E x64 \in BOOLEAN :
        jax_parameters' = DeterminantParameters(
            jnp_array(x64, parameters'["det_coeff"], 1),
            jnp_array(x64, parameters'["mo_coeff_alpha"], 2),
            jnp_array(x64, parameters'["mo_coeff_beta"], 2))
    /\ ret' = None
    /\ lastcall' = [op |-> "__setitem__", key |-> key]
    /\ UNCHANGED <<threads, self_expansion, _sign, _logabs, _dets_up, _dets_down, cached>>

\* a method of the map that only reads the dictionary
parameterMap_read(op, key, result) ==
    /\ ret' = <<result>>
    /\ lastcall' = [op |-> op, key |-> key, raised |-> FALSE]
    /\ UNCHANGED <<threads, parameters, jax_parameters, self_expansion,
                   _sign, _logabs, _dets_up, _dets_down, cached>>

parameterMap_getitem(key) == parameterMap_read("__getitem__", key, parameters[key])

parameterMap_len == parameterMap_read("__len__", None, Cardinality(DOMAIN parameters))

parameterMap_copy == parameterMap_read("copy", None, parameters)

parameterMap_has_key(k) == parameterMap_read("has_key", k, k \in DOMAIN parameters)

parameterMap_keys ==
    parameterMap_read("keys", None, <<"det_coeff", "mo_coeff_alpha", "mo_coeff_beta">>)

parameterMap_values ==
    parameterMap_read("values", None, <<parameters["det_coeff"],
                                        parameters["mo_coeff_alpha"],
                                        parameters["mo_coeff_beta"]>>)

\* dict.update on the stored dictionary, without raising
update_merging(key, item) ==
    /\ parameters' = [parameters EXCEPT ![key] = item]
    /\ ret' = None
    /\ lastcall' = [op |-> "update", key |-> key, raised |-> FALSE]
    /\ UNCHANGED <<threads, jax_parameters, self_expansion,
                   _sign, _logabs, _dets_up, _dets_down, cached>>

\* a method of the map that raises NotImplementedError
raise_NotImplementedError(op, key) ==
    /\ ret' = <<"NotImplementedError">>
    /\ lastcall' = [op |-> op, key |-> key, raised |-> TRUE]
    /\ UNCHANGED <<threads, parameters, jax_parameters, self_expansion,
                   _sign, _logabs, _dets_up, _dets_down, cached>>

parameterMap_delitem(key) == raise_NotImplementedError("__delitem__", key)

parameterMap_clear == raise_NotImplementedError("clear", None)

\* update(*args, **kwargs), called with one key and its new array
parameterMap_update(key, item) == raise_NotImplementedError("update", key)

(***************************************************************************)
(* JAXSlater methods                                                       *)
(***************************************************************************)
\* int(e >= self._nelec[0])
SpinOf(e) == IF e >= _nelec[1] THEN 1 ELSE 0

\* e - self._nelec[0]*spin
SpinIndex(e) == e - _nelec[1] * SpinOf(e)

\* the parameter arrays a _parameterMap over the expansion exp can hold
ParamSpace(exp) ==
    {DeterminantParameters(c, a, b) : c \in Items("det_coeff", exp),
                                      a \in Items("mo_coeff_alpha", exp),
                                      b \in Items("mo_coeff_beta", exp)}

\* value = partial(evaluate_expansion, gto_ne, expansion, nelec), compiled
\* once: tabulated over the parameter arrays and the coordinates
value ==
    [det_params \in ParamSpace(SingleDeterminant), xyz \in {w : w \in Walkers(Pos)} |->
        evaluate_expansion(SingleDeterminant, _nelec, det_params, xyz)]

\* an evaluation in which every configuration gets the first one's result
recompute_broadcast(det_params, configs) ==
    Tup([i \in 1..Len(configs) |-> value[det_params, configs[1]]])

\* jax.jit(jax.vmap(value, in_axes = (None, 0)))
_recompute(det_params, configs) ==
    Tup([i \in 1..Len(configs) |-> value[det_params, configs[i]]])

recompute_cache(configs) ==
    \E r \in {_recompute(jax_parameters, configs)} :
        /\ _sign' = Tup([i \in 1..Len(configs) |-> r[i].sign])
        /\ _logabs' = Tup([i \in 1..Len(configs) |-> r[i].logabs])
        /\ _dets_up' = Tup([i \in 1..Len(configs) |-> r[i].dets_up])
        /\ _dets_down' = Tup([i \in 1..Len(configs) |-> r[i].dets_down])
        /\ cached' = [xyz |-> configs, params |-> jax_parameters]

\* a full evaluation that also puts the parameters of construction back
recompute_resetting(configs) ==
    /\ recompute_cache(configs)
    /\ ret' = <<_sign', _logabs'>>
    /\ lastcall' = [op |-> "recompute", configs |-> configs]
    /\ jax_parameters' = DeterminantParameters(<<Num(1)>>,
                             TruncCols(MOCoeffA, NOrb(SingleDeterminant)),
                             TruncCols(MOCoeffA, NOrb(SingleDeterminant)))
    /\ parameters' = parameterMap_init(jax_parameters')
    /\ UNCHANGED <<threads, self_expansion>>

recompute(configs) ==
    /\ recompute_cache(configs)
    /\ ret' = <<_sign', _logabs'>>
    /\ lastcall' = [op |-> "recompute", configs |-> configs]
    /\ UNCHANGED <<threads, parameters, jax_parameters, self_expansion>>

\* the Sherman-Morrison branch of updateinternals for one spin channel:
\* the new SlaterState (mo_values None) where mask holds, the old one elsewhere
sm_branch(e, dets, determinants, mask, saved_values) ==
    With(sherman_morrison_row(e, Tup([i \in 1..Len(dets) |-> dets[i].inverse]),
                              saved_values, determinants), LAMBDA sm :
        Tup([i \in 1..Len(dets) |->
            [mo_values |-> None,
             sign |-> Tup([k \in 1..Len(determinants) |->
                          IF mask[i] THEN Mul(SignOf(sm[i][k].ratio), dets[i].sign[k])
                          ELSE dets[i].sign[k]]),
             logabsdet |-> Tup([k \in 1..Len(determinants) |->
                          IF mask[i]
                          THEN LAdd(dets[i].logabsdet[k], Log(AbsOf(sm[i][k].ratio)))
                          ELSE dets[i].logabsdet[k]]),
             inverse |-> Tup([k \in 1..Len(determinants) |->
                          IF mask[i] THEN sm[i][k].invnew ELSE dets[i].inverse[k]])]]))

\* updateinternals with the Sherman-Morrison branch enabled
updateinternals_incremental(e, epos, configs, mask, saved_values) ==
    /\ IF saved_values = None
       THEN recompute_cache(configs)
       ELSE IF SpinOf(e) = 0
            THEN /\ _dets_up' = sm_branch(SpinIndex(e), _dets_up,
                                    self_expansion.determinants_up, mask, saved_values)
                 /\ UNCHANGED <<_sign, _logabs, _dets_down, cached>>
            ELSE /\ _dets_down' = sm_branch(SpinIndex(e), _dets_down,
                                    self_expansion.determinants_down, mask, saved_values)
                 /\ UNCHANGED <<_sign, _logabs, _dets_up, cached>>
    /\ ret' = None
    /\ lastcall' = [op |-> "updateinternals", e |-> e, epos |-> epos, mask |-> mask,
                    raised |-> FALSE, configs |-> configs,
                    saved |-> (saved_values # None)]
    /\ UNCHANGED <<threads, parameters, jax_parameters, self_expansion>>

updateinternals(e, epos, configs, mask, saved_values) ==
    /\ IF TRUE \/ saved_values = None
       THEN recompute_cache(configs)
       ELSE IF SpinOf(e) = 0
            THEN /\ _dets_up' = sm_branch(SpinIndex(e), _dets_up,
                                    self_expansion.determinants_up, mask, saved_values)
                 /\ UNCHANGED <<_sign, _logabs, _dets_down, cached>>
            ELSE /\ _dets_down' = sm_branch(SpinIndex(e), _dets_down,
                                    self_expansion.determinants_down, mask, saved_values)
                 /\ UNCHANGED <<_sign, _logabs, _dets_up, cached>>
    /\ ret' = None
    /\ lastcall' = [op |-> "updateinternals", e |-> e, epos |-> epos, mask |-> mask,
                    raised |-> FALSE, configs |-> configs,
                    saved |-> (saved_values # None)]
    /\ UNCHANGED <<threads, parameters, jax_parameters, self_expansion>>

\* self._testvalue[spin], self._grad[spin], self._lap[spin]: vmap over configurations
testval_func(kind, spin, e, xyz) ==
    Tup([i \in 1..Len(xyz) |->
        IF spin = 0
        THEN testvalue_up(kind, self_expansion, jax_parameters,
                          _dets_up[i], _dets_down[i], e, xyz[i])
        ELSE testvalue_down(kind, self_expansion, jax_parameters,
                            _dets_up[i], _dets_down[i], e, xyz[i])])

\* the entries of a whose mask entry is true
RECURSIVE Compress(_, _)
Compress(a, mask) ==
    IF a = <<>> THEN <<>>
    ELSE (IF Head(mask) THEN <<Head(a)>> ELSE <<>>)
         \o Compress(Tail(a), Tail(mask))

\* a[mask] for a boolean mask; a[None] adds a leading axis
MaskSelect(a, mask) == IF mask = None THEN <<a>> ELSE Compress(a, mask)

\* a reader that stores the proposal's saved orbital values in the cache
reads_and_stores(op, e, epos, mask, result) ==
    /\ ret' = (IF _dets_up = None THEN <<"AttributeError">> ELSE result)
    /\ lastcall' = [op |-> op, e |-> e, epos |-> epos, mask |-> mask,
                    raised |-> (_dets_up = None)]
    /\ _dets_up' = (IF _dets_up = None THEN None
                    ELSE Tup([i \in 1..Len(_dets_up) |->
                             [_dets_up[i] EXCEPT !.mo_values = None]]))
    /\ UNCHANGED <<threads, parameters, jax_parameters, self_expansion,
                   _sign, _logabs, _dets_down, cached>>

\* a method that reads the cached state and returns: nothing is assigned
reads(op, e, epos, mask, result) ==
    /\ ret' = (IF _dets_up = None THEN <<"AttributeError">> ELSE result)
    /\ lastcall' = [op |-> op, e |-> e, epos |-> epos, mask |-> mask,
                    raised |-> (_dets_up = None)]
    /\ UNCHANGED <<threads, parameters, jax_parameters, self_expansion,
                   _sign, _logabs, _dets_up, _dets_down, cached>>

\* the index the compiled functions read for electron e of its spin channel
electron_index(e) == traced_index(SpinIndex(e), _nelec[SpinOf(e) + 1])

\* values of the one-position-per-configuration branch
testvalue_values(spin, e, xyz) ==
    With(testval_func("value", spin, e, xyz), LAMBDA r :
        [vals |-> Tup([i \in 1..Len(xyz) |-> r[i].ratio[1]]),
         saved |-> Tup([i \in 1..Len(xyz) |-> r[i].mos[1]])])

\* epos.configs of shape (nconf, 3): one proposed position per configuration
testvalue(e, epos, mask) ==
    \E idx \in electron_index(e) :
        reads("testvalue", e, epos, mask,
              With(testvalue_values(SpinOf(e), idx, epos), LAMBDA r :
                  <<MaskSelect(r.vals, mask), r.saved>>))

\* epos.configs of shape (nconf, naux, 3): several positions per configuration
testvalue_aux(e, epos, mask) ==
    \E idx \in electron_index(e) :
        reads("testvalue", e, epos, mask,
              With(Tup([a \in 1..Len(epos[1]) |->
                       testvalue_values(SpinOf(e), idx,
                           Tup([i \in 1..Len(epos) |-> epos[i][a]])).vals]),
                   LAMBDA allvals :
                  <<MaskSelect(Tup([i \in 1..Len(epos) |->
                                   Tup([a \in 1..Len(epos[1]) |-> allvals[a][i]])]), mask),
                    None>>))

\* grad.T / values: one row per derivative component
over_values(derivs, values) ==
    Tup([c \in 1..Len(derivs[1]) |->
        Tup([i \in 1..Len(values) |-> Div(derivs[i][c], values[i])])])

\* jnp.trace of the Hessian ratios of each configuration
trace(lap) == Tup([i \in 1..Len(lap) |-> SumSeq(lap[i])])

derivs_of(kind, spin, e, xyz) ==
    With(testval_func(kind, spin, e, xyz), LAMBDA r :
        Tup([i \in 1..Len(xyz) |-> r[i].ratio]))

gradient(e, epos) ==
    \E idx \in electron_index(e) :
        reads("gradient", e, epos, None,
              over_values(derivs_of("grad", SpinOf(e), idx, epos),
                          testvalue_values(SpinOf(e), idx, epos).vals))

gradient_value(e, epos) ==
    \E idx \in electron_index(e) :
        reads("gradient_value", e, epos, None,
              With(testvalue_values(SpinOf(e), idx, epos), LAMBDA r :
                  <<over_values(derivs_of("grad", SpinOf(e), idx, epos), r.vals),
                    r.vals, r.saved>>))

gradient_laplacian(e, epos) ==
    \E idx \in electron_index(e) :
        reads("gradient_laplacian", e, epos, None,
              <<over_values(derivs_of("grad", SpinOf(e), idx, epos),
                            testvalue_values(SpinOf(e), idx, epos).vals),
                trace(derivs_of("lap", SpinOf(e), idx, epos))>>)

laplacian(e, epos) ==
    \E idx \in electron_index(e) :
        reads("laplacian", e, epos, None,
              With(testvalue_values(SpinOf(e), idx, epos).vals, LAMBDA v :
              With(trace(derivs_of("lap", SpinOf(e), idx, epos)), LAMBDA t :
                  Tup([i \in 1..Len(epos) |-> Div(t[i], v[i])]))))

\* d log|det(ao @ mo_coeff[:, det])| / d mo_coeff: entry (a, o) is the sum over
\* electrons i of ao[i][a] * inverse[j][i] for the column j that orbital o
\* occupies in the determinant, and 0 for an orbital the determinant leaves out
slogdet_jacobian(ao, inverse, det, norb) ==
    Tup([a \in 1..Len(ao[1]) |-> Tup([o \in 1..norb |->
        SumSeq(Flatten(Tup([i \in 1..Len(ao) |-> Tup([j \in 1..Len(det) |->
            IF det[j] = o - 1 THEN Mul(ao[i][a], inverse[j][i]) ELSE Zero])])))])])

\* sum over the CI terms of weights[i] * jacobians[mapping[i]]
weighted_jacobian(weights, jacobians, mapping) ==
    Tup([a \in 1..Len(jacobians[1]) |-> Tup([o \in 1..Len(jacobians[1][1]) |->
        SumSeq(Tup([i \in 1..Len(weights) |->
            Mul(weights[i], jacobians[mapping[i] + 1][a][o])]))])])

\* element [1] of jax.jacobian(value, argnums=0): the derivative of the
\* log-magnitude with respect to ci_coeff, mo_coeff_alpha and mo_coeff_beta.
\* With values = sum_i ci_i * sign_i * exp(logdets_i - ref), the weight of
\* term i is ci_i * sign_i * exp(logdets_i - ref) / values.
_pgradient(expansion, nelec, det_params, xyz) ==
    With(evaluate_expansion(expansion, nelec, det_params, xyz), LAMBDA v :
    With(combine_logdets(v.dets_up, v.dets_down, expansion), LAMBDA logdets :
    With(combine_signdets(v.dets_up, v.dets_down, expansion), LAMBDA signdets :
    With(ci_sum(det_params.ci_coeff, signdets, logdets, LMax(logdets)), LAMBDA values :
    With(Tup([i \in 1..Len(logdets) |->
             Div(Mul(signdets[i], Exp(LSub(logdets[i], LMax(logdets)))), values)]),
         LAMBDA dci :
        [det_coeff |-> dci,
         mo_coeff_alpha |->
             weighted_jacobian(
                 Tup([i \in 1..Len(dci) |-> Mul(det_params.ci_coeff[i], dci[i])]),
                 Tup([k \in 1..Len(expansion.determinants_up) |->
                     slogdet_jacobian(gto_ne(SubSeq(xyz, 1, nelec[1])),
                                      v.dets_up.inverse[k],
                                      expansion.determinants_up[k],
                                      Len(det_params.mo_coeff_alpha[1]))]),
                 expansion.mapping_up),
         mo_coeff_beta |->
             weighted_jacobian(
                 Tup([i \in 1..Len(dci) |-> Mul(det_params.ci_coeff[i], dci[i])]),
                 Tup([k \in 1..Len(expansion.determinants_down) |->
                     slogdet_jacobian(gto_ne(SubSeqFrom(xyz, nelec[1])),
                                      v.dets_down.inverse[k],
                                      expansion.determinants_down[k],
                                      Len(det_params.mo_coeff_beta[1]))]),
                 expansion.mapping_down)])))))

\* JAXSlater.pgradient: evaluated from configs and the parameters, not from
\* the cached state
pgradient(configs) ==
    /\ ret' = Tup([i \in 1..Len(configs) |->
                  _pgradient(self_expansion, _nelec, jax_parameters, configs[i])])
    /\ lastcall' = [op |-> "pgradient", configs |-> configs]
    /\ UNCHANGED <<threads, parameters, jax_parameters, self_expansion,
                   _sign, _logabs, _dets_up, _dets_down, cached>>

(***************************************************************************)
(* The calls a sampler or optimizer makes, on batches of n configurations  *)
(* with coordinates in P.  After a call the caller either uses what it     *)
(* returned in the next call or drops it (forget).                         *)
(***************************************************************************)
Idle == lastcall.op \in {"__init__", "idle"}

Proposed == lastcall.op = "testvalue" /\ Len(ret) = 2 /\ ret[2] # None

\* configs.electron(e): the coordinates of electron e in every configuration
electron(configs, e) == Tup([i \in 1..Len(configs) |-> configs[i][e + 1]])

\* proposals with two positions per configuration
AuxPositions(n, P) == [1..n -> {<<x, MaxPos - x>> : x \in P}]

forget ==
    /\ ~Idle
    /\ lastcall' = [op |-> "idle"]
    /\ ret' = None
    /\ UNCHANGED <<threads, parameters, jax_parameters, self_expansion,
                   _sign, _logabs, _dets_up, _dets_down, cached>>

CallRecompute(n, P) ==
    /\ Idle
    /\ \E configs \in Batches(n, P) : recompute(configs)

\* a call without saved values
CallUpdateinternals(n, P) ==
    /\ Idle
    /\ \E e \in ElectronArgs, epos \in [1..n -> P], configs \in Batches(n, P),
          mask \in Masks(n) \cup {None} :
        updateinternals(e, epos, configs, mask, None)

\* configs.move(e, epos, accept): electron e at its proposed position in the
\* accepted configurations
move(configs, e, epos, accept) ==
    Tup([i \in 1..Len(configs) |->
        IF accept[i] THEN [configs[i] EXCEPT ![e + 1] = epos[i]] ELSE configs[i]])

\* the sampler's step after a proposal: the accepted moves are made and
\* updateinternals gets the values testvalue saved
CallUpdateinternalsSaved(n) ==
    /\ Proposed
    /\ lastcall.e \in Electrons
    /\ \E accept \in Masks(n) :
        updateinternals(lastcall.e, lastcall.epos,
                        move(cached.xyz, lastcall.e, lastcall.epos, accept),
                        accept, ret[2])

CallTestvalue(n, P) ==
    /\ Idle
    /\ \E e \in ElectronArgs, epos \in [1..n -> P], mask \in Masks(n) \cup {None} :
        testvalue(e, epos, mask)

CallTestvalueAux(n, P) ==
    /\ Idle
    /\ \E e \in ElectronArgs, epos \in AuxPositions(n, P), mask \in Masks(n) :
        testvalue_aux(e, epos, mask)

CallGradient(n, P) ==
    /\ Idle
    /\ \E e \in ElectronArgs, epos \in [1..n -> P] : gradient(e, epos)

CallGradientValue(n, P) ==
    /\ Idle
    /\ \E e \in ElectronArgs, epos \in [1..n -> P] : gradient_value(e, epos)

CallGradientLaplacian(n, P) ==
    /\ Idle
    /\ \E e \in ElectronArgs, epos \in [1..n -> P] : gradient_laplacian(e, epos)

CallLaplacian(n, P) ==
    /\ Idle
    /\ \E e \in ElectronArgs, epos \in [1..n -> P] : laplacian(e, epos)

CallPgradient(n, P) ==
    /\ Idle
    /\ \E configs \in Batches(n, P) : pgradient(configs)

CallSetitem ==
    /\ Idle
    /\ \E key \in Keys : \E item \in Items(key, self_expansion) :
        parameterMap_setitem(key, item)

\* one walker
Next ==
    \/ CallRecompute(1, Pos)
    \/ CallUpdateinternals(1, Pos)
    \/ CallUpdateinternalsSaved(1)
    \/ CallTestvalue(1, Pos)
    \/ CallTestvalueAux(1, Pos)
    \/ CallGradient(1, Pos)
    \/ CallGradientValue(1, Pos)
    \/ CallGradientLaplacian(1, Pos)
    \/ CallLaplacian(1, Pos)
    \/ CallPgradient(1, Pos)
    \/ CallSetitem
    \/ forget

Spec == Init /\ [][Next]_vars

\* two walkers, under the parameters of construction: full evaluations,
\* proposals and the commits that follow them
NextBatch ==
    \/ CallRecompute(2, Pos)
    \/ CallTestvalue(2, Pos)
    \/ CallUpdateinternalsSaved(2)
    \/ forget

SpecBatch == Init /\ [][NextBatch]_vars

(***************************************************************************)
(* Two threads sharing one JAXSlater object: a writer inside recompute     *)
(* (called directly or from updateinternals) and a reader inside           *)
(* testvalue.  The code takes no lock, so the threads interleave at the    *)
(* attribute loads and stores of the method bodies: recompute evaluates    *)
(* self._recompute(...) and then stores _sign, _logabs, _dets_up and       *)
(* _dets_down one after the other; testvalue loads self._dets_up and then  *)
(* self._dets_down as arguments of the compiled function.  threads holds   *)
(* each thread's position and locals, the number of recompute calls made   *)
(* so far, and for the two per-spin states the number of the call that     *)
(* stored them (version).                                                  *)
(***************************************************************************)
\* the number of recompute calls the writer makes
MaxWrites == 2

WriterIdle == [pc |-> "idle", configs |-> None, result |-> None]

ReaderIdle ==
    [pc |-> "idle", e |-> None, epos |-> None, dets_up |-> None, dets_down |-> None,
     seen_up |-> None, seen_down |-> None]

InitThreads ==
    /\ JAXSlater_init
    /\ threads = [writer |-> WriterIdle, reader |-> ReaderIdle, calls |-> 0,
                  version |-> [up |-> 0, down |-> 0]]

\* recompute is entered and self._recompute(...) is evaluated
WriterCall(n, P) ==
    /\ threads.writer.pc = "idle"
    /\ threads.calls < MaxWrites
    /\ \E configs \in Batches(n, P) :
        threads' = [threads EXCEPT !.calls = @ + 1, !.writer =
                       [pc |-> "store_sign", configs |-> configs,
                        result |-> _recompute(jax_parameters, configs)]]
    /\ UNCHANGED <<parameters, jax_parameters, self_expansion,
                   _sign, _logabs, _dets_up, _dets_down, lastcall, ret, cached>>

WriterStoreSign ==
    /\ threads.writer.pc = "store_sign"
    /\ _sign' = Tup([i \in 1..Len(threads.writer.result) |->
                        threads.writer.result[i].sign])
    /\ threads' = [threads EXCEPT !.writer.pc = "store_logabs"]
    /\ UNCHANGED <<parameters, jax_parameters, self_expansion,
                   _logabs, _dets_up, _dets_down, lastcall, ret, cached>>

WriterStoreLogabs ==
    /\ threads.writer.pc = "store_logabs"
    /\ _logabs' = Tup([i \in 1..Len(threads.writer.result) |->
                          threads.writer.result[i].logabs])
    /\ threads' = [threads EXCEPT !.writer.pc = "store_dets_up"]
    /\ UNCHANGED <<parameters, jax_parameters, self_expansion,
                   _sign, _dets_up, _dets_down, lastcall, ret, cached>>

WriterStoreDetsUp ==
    /\ threads.writer.pc = "store_dets_up"
    /\ _dets_up' = Tup([i \in 1..Len(threads.writer.result) |->
                           threads.writer.result[i].dets_up])
    /\ threads' = [threads EXCEPT !.writer.pc = "store_dets_down",
                                  !.version.up = threads.calls]
    /\ UNCHANGED <<parameters, jax_parameters, self_expansion,
                   _sign, _logabs, _dets_down, lastcall, ret, cached>>

\* the last store; recompute returns
WriterStoreDetsDown ==
    /\ threads.writer.pc = "store_dets_down"
    /\ _dets_down' = Tup([i \in 1..Len(threads.writer.result) |->
                             threads.writer.result[i].dets_down])
    /\ cached' = [xyz |-> threads.writer.configs, params |-> jax_parameters]
    /\ threads' = [threads EXCEPT !.writer = WriterIdle,
                                  !.version.down = threads.calls]
    /\ UNCHANGED <<parameters, jax_parameters, self_expansion,
                   _sign, _logabs, _dets_up, lastcall, ret>>

\* testvalue is entered and self._dets_up is loaded
ReaderLoadDetsUp(n, P) ==
    /\ threads.reader.pc = "idle"
    /\ _dets_up # None
    /\ \E e \in Electrons, epos \in [1..n -> P] :
        threads' = [threads EXCEPT !.reader =
                       [pc |-> "load_dets_down", e |-> e, epos |-> epos,
                        dets_up |-> _dets_up, dets_down |-> None,
                        seen_up |-> threads.version.up, seen_down |-> None]]
    /\ UNCHANGED <<parameters, jax_parameters, self_expansion,
                   _sign, _logabs, _dets_up, _dets_down, lastcall, ret, cached>>

\* self._dets_down is loaded; the attribute does not exist before the first
\* recompute has stored it
ReaderLoadDetsDown ==
    /\ threads.reader.pc = "load_dets_down"
    /\ IF _dets_down = None
       THEN /\ threads' = [threads EXCEPT !.reader = ReaderIdle]
            /\ ret' = <<"AttributeError">>
       ELSE /\ threads' = [threads EXCEPT !.reader.pc = "call",
                                          !.reader.dets_down = _dets_down,
                                          !.reader.seen_down = threads.version.down]
            /\ ret' = ret
    /\ UNCHANGED <<parameters, jax_parameters, self_expansion,
                   _sign, _logabs, _dets_up, _dets_down, lastcall, cached>>

\* the compiled function runs on the loaded states and testvalue returns
ReaderCall ==
    /\ threads.reader.pc = "call"
    /\ ret' = Tup([i \in 1..Len(threads.reader.epos) |->
                     (IF SpinOf(threads.reader.e) = 0
                      THEN testvalue_up("value", self_expansion, jax_parameters,
                               threads.reader.dets_up[i], threads.reader.dets_down[i],
                               SpinIndex(threads.reader.e), threads.reader.epos[i])
                      ELSE testvalue_down("value", self_expansion, jax_parameters,
                               threads.reader.dets_up[i], threads.reader.dets_down[i],
                               SpinIndex(threads.reader.e),
                               threads.reader.epos[i])).ratio[1]])
    /\ threads' = [threads EXCEPT !.reader = ReaderIdle]
    /\ UNCHANGED <<parameters, jax_parameters, self_expansion,
                   _sign, _logabs, _dets_up, _dets_down, lastcall, cached>>

NextThreads ==
    \/ WriterCall(1, Pos)
    \/ WriterStoreSign
    \/ WriterStoreLogabs
    \/ WriterStoreDetsUp
    \/ WriterStoreDetsDown
    \/ ReaderLoadDetsUp(1, Pos)
    \/ ReaderLoadDetsDown
    \/ ReaderCall

SpecThreads == InitThreads /\ [][NextThreads]_vars

(***************************************************************************)
(* evaluate_expansion as a pure function: an expansion, parameter arrays   *)
(* and the coordinates of one configuration are drawn, then it is applied. *)
(* lastcall holds the arguments and ret the result.                        *)
(***************************************************************************)
EvalInputs ==
    UNION {{[op |-> "input", expansion |-> x, det_params |-> dp, xyz |-> w] :
               dp \in ParamSpace(x), w \in Walkers(Pos)} :
           x \in {SingleDeterminant, TwoTermExpansion}}

NoObject ==
    /\ parameters = None
    /\ jax_parameters = None
    /\ self_expansion = None
    /\ _sign = None
    /\ _logabs = None
    /\ _dets_up = None
    /\ _dets_down = None
    /\ cached = None
    /\ threads = None

InitEval ==
    /\ lastcall \in EvalInputs
    /\ ret = None
    /\ NoObject

CallEvaluateExpansion ==
    /\ lastcall.op = "input"
    /\ ret' = evaluate_expansion(lastcall.expansion, _nelec,
                                 lastcall.det_params, lastcall.xyz)
    /\ lastcall' = [lastcall EXCEPT !.op = "evaluate_expansion"]
    /\ UNCHANGED <<threads, parameters, jax_parameters, self_expansion,
                   _sign, _logabs, _dets_up, _dets_down, cached>>

\* testvalue_up or testvalue_down (with the value, gradient or laplacian
\* evaluator) applied to the state evaluate_expansion returned
CallTestvalueUpDown ==
    /\ lastcall.op = "evaluate_expansion"
    /\ \E kind \in {"value", "grad", "lap"}, e \in Electrons, x \in Pos :
        /\ lastcall' = [op |-> IF SpinOf(e) = 0 THEN "testvalue_up" ELSE "testvalue_down",
                        expansion |-> lastcall.expansion,
                        det_params |-> lastcall.det_params,
                        xyz |-> lastcall.xyz, state |-> ret,
                        kind |-> kind, e |-> SpinIndex(e), x |-> x]
        /\ ret' = IF SpinOf(e) = 0
                  THEN testvalue_up(kind, lastcall.expansion, lastcall.det_params,
                                    ret.dets_up, ret.dets_down, SpinIndex(e), x)
                  ELSE testvalue_down(kind, lastcall.expansion, lastcall.det_params,
                                      ret.dets_up, ret.dets_down, SpinIndex(e), x)
    /\ UNCHANGED <<threads, parameters, jax_parameters, self_expansion,
                   _sign, _logabs, _dets_up, _dets_down, cached>>

NextEval == CallEvaluateExpansion \/ CallTestvalueUpDown

SpecEval == InitEval /\ [][NextEval]_vars

(***************************************************************************)
(* _sherman_morrison_row as a pure function: an invertible occupied-       *)
(* orbital matrix M (its exact inverse is the argument), an electron index *)
(* and the new row of orbital values are drawn, then it is applied.        *)
(***************************************************************************)
\* largest magnitude of a matrix entry or orbital value
MaxEntry == 1

Entries == {Num(v) : v \in (-MaxEntry)..MaxEntry}

\* the n x n matrices with a non-zero determinant
Invertible(n) == {m \in [1..n -> [1..n -> Entries]] : Det(m) # Zero}

\* the orbitals a determinant of n electrons occupies
Occupied(n) == IF n = 1 THEN <<2>> ELSE <<0, 2>>

SMInputs ==
    UNION {{[op |-> "input", e |-> e, M |-> m, mos |-> v, determinant |-> Occupied(n)] :
               e \in 0..(n - 1), m \in Invertible(n), v \in [1..3 -> Entries]} :
           n \in 1..2}

InitSM ==
    /\ lastcall \in SMInputs
    /\ ret = None
    /\ NoObject

CallShermanMorrisonRow ==
    /\ lastcall.op = "input"
    /\ ret' = _sherman_morrison_row(lastcall.e, Inv(lastcall.M),
                                    lastcall.mos, lastcall.determinant)
    /\ lastcall' = [lastcall EXCEPT !.op = "_sherman_morrison_row"]
    /\ UNCHANGED <<threads, parameters, jax_parameters, self_expansion,
                   _sign, _logabs, _dets_up, _dets_down, cached>>

NextSM == CallShermanMorrisonRow

SpecSM == InitSM /\ [][NextSM]_vars

(***************************************************************************)
(* The _parameterMap of JAXJastrowSpin (pyqmc.jax.jastrowspin): the same   *)
(* class over the keys acoeff and bcoeff.  acoeff[I][k][s] is the          *)
(* coefficient of atom I, basis function k and spin s; bcoeff[k][c] the    *)
(* coefficient of basis function k and spin pair c (up-up, up-down,        *)
(* down-down).  The molecule has one atom; there is one polypade function  *)
(* of each kind besides the cusp function.                                 *)
(***************************************************************************)
CoefficientParameters(acoeff, bcoeff) == [acoeff |-> acoeff, bcoeff |-> bcoeff]

JastrowKeys == {"acoeff", "bcoeff"}

\* _init_params: zero coefficients, the electron-ion cusp row set to the
\* atom's charge (1), the electron-electron cusp row to -1/4, -1/2, -1/4
acoeff_init == <<<<<<Num(1), Num(1)>>, <<Zero, Zero>>>>>>

bcoeff_init == <<<<Norm(-1, 4), Norm(-1, 2), Norm(-1, 4)>>, <<Zero, Zero, Zero>>>>

\* the arrays a caller may assign to a key of the Jastrow map
JastrowItems(key) ==
    IF key = "acoeff"
    THEN {acoeff_init, <<<<<<Num(1), Num(1)>>, <<Num(1), Num(-1)>>>>>>}
    ELSE {bcoeff_init,
          <<<<Norm(-1, 4), Norm(-1, 2), Norm(-1, 4)>>, <<Num(1), Num(-1), Num(2)>>>>}

jastrow_parameterMap_init(jp) ==
    [k \in JastrowKeys |-> IF k = "acoeff" THEN jp.acoeff ELSE jp.bcoeff]

jastrow_parameterMap_setitem(key, item) ==
    /\ parameters' = [parameters EXCEPT ![key] = item]
    /\ \E x64 \in BOOLEAN :
        jax_parameters' = CoefficientParameters(jnp_array(x64, parameters'["acoeff"], 3),
                                                jnp_array(x64, parameters'["bcoeff"], 2))
    /\ ret' = None
    /\ lastcall' = [op |-> "__setitem__", key |-> key]
    /\ UNCHANGED <<threads, self_expansion, _sign, _logabs, _dets_up, _dets_down, cached>>

jastrow_parameterMap_delitem(key) == raise_NotImplementedError("__delitem__", key)

jastrow_parameterMap_clear == raise_NotImplementedError("clear", None)

jastrow_parameterMap_update(key, item) == raise_NotImplementedError("update", key)

(***************************************************************************)
(* The Jastrow factor of pyqmc.jax.jastrowspin as pure functions.          *)
(* Electrons and the atom sit on one axis, so a distance is the absolute   *)
(* difference of two coordinates.  exp(x) is kept as [exp |-> x].          *)
(***************************************************************************)
\* the largest electron coordinate
MaxJPos == 2

JPos == 0..MaxJPos

\* mol.atom_coords(): one atom
atom_coords == <<0>>

\* basis_params: rcut, gamma and the beta parameters of the a and b terms
rcut == Num(2)

gamma == <<Num(3)>>

beta_a == <<Norm(4, 11)>>

beta_b == <<Norm(9, 11)>>

z(x) == Mul(Mul(x, x), Add(Sub(Num(6), Mul(Num(8), x)), Mul(Num(3), Mul(x, x))))

p(y) == Div(Add(Mul(Sub(y, One), Mul(Sub(y, One), Sub(y, One))), One), Num(3))

polypade(rij, beta, rc) ==
    IF Less(rc, rij) THEN Zero
    ELSE Div(Sub(One, z(Div(rij, rc))), Add(One, Mul(beta, z(Div(rij, rc)))))

cutoffcusp(rij, gam, rc) ==
    IF Less(rc, rij) THEN Zero
    ELSE Mul(Add(Neg(Div(p(Div(rij, rc)), Add(One, Mul(gam, p(Div(rij, rc)))))),
                 Recip(Add(Num(3), gam))),
             rc)

\* vmapped_polypade / vmapped_cutoffcusp: (n,), (nbasis,) -> (n, nbasis)
vmapped_basis(basis, rij, param, rc) ==
    Tup([i \in 1..Len(rij) |-> Tup([k \in 1..Len(param) |->
        IF basis = "polypade" THEN polypade(rij[i], param[k], rc)
        ELSE cutoffcusp(rij[i], param[k], rc)])])

\* numpy broadcasting along the first axis: an axis of size 1 is repeated
\* (the electron counts of this model make every other pair of sizes equal)
Broadcast(x, n) == IF Len(x) = n THEN x ELSE Tup([i \in 1..n |-> x[1]])

LongerOf(x, y) == IF Len(x) >= Len(y) THEN Len(x) ELSE Len(y)

\* u + v for vectors, with broadcasting
vector_add(u, v) ==
    Tup([i \in 1..LongerOf(u, v) |->
        Add(Broadcast(u, LongerOf(u, v))[i], Broadcast(v, LongerOf(u, v))[i])])

\* jnp.sum(coeff * basis_val) for (m, nbasis) and (n, nbasis) arrays
sum_of_product(coeff, basis_val) ==
    SumSeq(Flatten(Tup([i \in 1..LongerOf(coeff, basis_val) |->
        Tup([k \in 1..Len(coeff[1]) |->
            Mul(Broadcast(coeff, LongerOf(coeff, basis_val))[i][k],
                Broadcast(basis_val, LongerOf(coeff, basis_val))[i][k])])])))

partial_basis_sum(elec_coord, coords, coeff, basis, param, rc) ==
    sum_of_product(coeff,
        vmapped_basis(basis,
                      Tup([j \in 1..Len(coords) |-> Num(IAbs(elec_coord - coords[j]))]),
                      param, rc))

\* the three evaluators of create_jastrow_evaluator
a_eval(elec_coord, coords, coeff) ==
    partial_basis_sum(elec_coord, coords, coeff, "polypade", beta_a, rcut)

b_eval(elec_coord, coords, coeff) ==
    partial_basis_sum(elec_coord, coords, coeff, "polypade", beta_b, rcut)

cusp_eval(elec_coord, coords, coeff) ==
    partial_basis_sum(elec_coord, coords, coeff, "cutoffcusp", gamma, rcut)

\* acoeff[:, 1:, s] and acoeff[:, :1, s]
acoeff_poly(acoeff, s) ==
    Tup([I \in 1..Len(acoeff) |-> Tup([k \in 1..(Len(acoeff[I]) - 1) |->
        acoeff[I][k + 1][s + 1]])])

acoeff_cusp(acoeff, s) == Tup([I \in 1..Len(acoeff) |-> <<acoeff[I][1][s + 1]>>])

\* jnp.tile(bcoeff[1:, c], (n, 1)) and jnp.tile(bcoeff[:1, c], (n, 1))
tile_poly(bcoeff, c, n) ==
    Tup([i \in 1..n |-> Tup([k \in 1..(Len(bcoeff) - 1) |-> bcoeff[k + 1][c + 1]])])

tile_cusp(bcoeff, c, n) == Tup([i \in 1..n |-> <<bcoeff[1][c + 1]>>])

compute_bdiag_corr(nelec, parameters_) ==
    Add(Add(Mul(SumSeq(Tup([k \in 1..(Len(parameters_.bcoeff) - 1) |->
                    parameters_.bcoeff[k + 1][1]])), Num(nelec[1])),
            Mul(SumSeq(Tup([k \in 1..(Len(parameters_.bcoeff) - 1) |->
                    parameters_.bcoeff[k + 1][3]])), Num(nelec[2]))),
        Mul(Div(rcut, Add(Num(3), gamma[1])),
            Add(Mul(parameters_.bcoeff[1][1], Num(nelec[1])),
                Mul(parameters_.bcoeff[1][3], Num(nelec[2])))))

\* evaluate_jastrow, with the electrons' evaluators vmapped over electrons
jastrow_terms(nelec, parameters_, coords_up, coords_dn) ==
    [a_up |-> Tup([i \in 1..Len(coords_up) |->
         Add(a_eval(coords_up[i], atom_coords, acoeff_poly(parameters_.acoeff, 0)),
             cusp_eval(coords_up[i], atom_coords, acoeff_cusp(parameters_.acoeff, 0)))]),
     a_dn |-> Tup([i \in 1..Len(coords_dn) |->
         Add(a_eval(coords_dn[i], atom_coords, acoeff_poly(parameters_.acoeff, 1)),
             cusp_eval(coords_dn[i], atom_coords, acoeff_cusp(parameters_.acoeff, 1)))]),
     b_upup |-> Tup([i \in 1..Len(coords_up) |->
         Add(b_eval(coords_up[i], coords_up, tile_poly(parameters_.bcoeff, 0, nelec[1])),
             cusp_eval(coords_up[i], coords_up, tile_cusp(parameters_.bcoeff, 0, nelec[1])))]),
     b_updn |-> Tup([i \in 1..Len(coords_up) |->
         Add(b_eval(coords_up[i], coords_dn, tile_poly(parameters_.bcoeff, 1, nelec[2])),
             cusp_eval(coords_up[i], coords_dn, tile_cusp(parameters_.bcoeff, 1, nelec[1])))]),
     b_dndn |-> Tup([i \in 1..Len(coords_dn) |->
         Add(b_eval(coords_dn[i], coords_dn, tile_poly(parameters_.bcoeff, 2, nelec[2])),
             cusp_eval(coords_dn[i], coords_dn, tile_cusp(parameters_.bcoeff, 2, nelec[1])))])]

evaluate_jastrow(nelec, parameters_, coords) ==
    With(jastrow_terms(nelec, parameters_, SubSeq(coords, 1, nelec[1]),
                       SubSeqFrom(coords, nelec[1])), LAMBDA t :
    With(SumSeq(vector_add(t.a_up, t.a_dn)), LAMBDA a :
    With(Sub(SumSeq(vector_add(
                 Tup([i \in 1..Len(vector_add(t.b_upup, t.b_dndn)) |->
                     Div(vector_add(t.b_upup, t.b_dndn)[i], Num(2))]),
                 t.b_updn)),
             Div(compute_bdiag_corr(nelec, parameters_), Num(2))), LAMBDA b :
        [a |-> a, b |-> b, logj |-> Add(a, b)])))

\* jnp.exp(x)
jnp_exp(x) == [exp |-> x]

\* the a and b terms electron position x contributes among coords
testvalue_terms(nelec, parameters_, x, coords, spin) ==
    [a |-> Add(a_eval(x, atom_coords, acoeff_poly(parameters_.acoeff, spin)),
               cusp_eval(x, atom_coords, acoeff_cusp(parameters_.acoeff, spin))),
     b_up |-> Add(b_eval(x, SubSeq(coords, 1, nelec[1]),
                         tile_poly(parameters_.bcoeff, spin + 0, nelec[1])),
                  cusp_eval(x, SubSeq(coords, 1, nelec[1]),
                            tile_cusp(parameters_.bcoeff, spin + 0, nelec[1]))),
     b_dn |-> Add(b_eval(x, SubSeqFrom(coords, nelec[1]),
                         tile_poly(parameters_.bcoeff, spin + 1, nelec[2])),
                  cusp_eval(x, SubSeqFrom(coords, nelec[1]),
                            tile_cusp(parameters_.bcoeff, spin + 1, nelec[1])))]

evaluate_testvalue(nelec, parameters_, coords_old, e, spin, epos) ==
    With(testvalue_terms(nelec, parameters_, epos,
                         [coords_old EXCEPT ![e + 1] = epos], spin), LAMBDA new :
    With(testvalue_terms(nelec, parameters_, coords_old[e + 1], coords_old, spin),
         LAMBDA old :
        jnp_exp(Add(Sub(new.a, old.a),
                    Sub(Sub(Add(new.b_up, new.b_dn), old.b_up), old.b_dn)))))

\* the b-term and cusp evaluator calls of evaluate_jastrow, in source order:
\* for each call the tiled coefficient array and the coordinates it is
\* summed against
jastrow_calls(nelec, parameters_, coords_up, coords_dn) ==
    <<[coeff |-> tile_poly(parameters_.bcoeff, 0, nelec[1]), coords |-> coords_up],
      [coeff |-> tile_cusp(parameters_.bcoeff, 0, nelec[1]), coords |-> coords_up],
      [coeff |-> tile_poly(parameters_.bcoeff, 1, nelec[2]), coords |-> coords_dn],
      [coeff |-> tile_cusp(parameters_.bcoeff, 1, nelec[1]), coords |-> coords_dn],
      [coeff |-> tile_poly(parameters_.bcoeff, 2, nelec[2]), coords |-> coords_dn],
      [coeff |-> tile_cusp(parameters_.bcoeff, 2, nelec[1]), coords |-> coords_dn]>>

\* the same for evaluate_testvalue (called for the new and the old position)
testvalue_calls(nelec, parameters_, coords, spin) ==
    <<[coeff |-> tile_poly(parameters_.bcoeff, spin + 0, nelec[1]),
       coords |-> SubSeq(coords, 1, nelec[1])],
      [coeff |-> tile_cusp(parameters_.bcoeff, spin + 0, nelec[1]),
       coords |-> SubSeq(coords, 1, nelec[1])],
      [coeff |-> tile_poly(parameters_.bcoeff, spin + 1, nelec[2]),
       coords |-> SubSeqFrom(coords, nelec[1])],
      [coeff |-> tile_cusp(parameters_.bcoeff, spin + 1, nelec[1]),
       coords |-> SubSeqFrom(coords, nelec[1])]>>

\* the same for evaluate_derivative, whose counts are the shapes of the
\* coordinate arrays it is given
derivative_calls(parameters_, coords_up, coords_dn, spin) ==
    <<[coeff |-> tile_poly(parameters_.bcoeff, spin + 0, Len(coords_up)),
       coords |-> coords_up],
      [coeff |-> tile_cusp(parameters_.bcoeff, spin + 0, Len(coords_up)),
       coords |-> coords_up],
      [coeff |-> tile_poly(parameters_.bcoeff, spin + 1, Len(coords_dn)),
       coords |-> coords_dn],
      [coeff |-> tile_cusp(parameters_.bcoeff, spin + 1, Len(coords_dn)),
       coords |-> coords_dn]>>

\* _split_configs: the coordinates without electron e, split by spin
split_configs(nelec, coords, e) ==
    With(Tup([i \in 1..(Len(coords) - 1) |->
             IF i <= e THEN coords[i] ELSE coords[i + 1]]), LAMBDA rest :
        [configs_up |-> SubSeq(rest, 1, nelec[1] - (IF e >= nelec[1] THEN 0 ELSE 1)),
         configs_dn |-> SubSeqFrom(rest, nelec[1] - (IF e >= nelec[1] THEN 0 ELSE 1))])

\* the electron counts (nup, ndn) of the molecule
JastrowCounts == {<<1, 1>>, <<2, 1>>, <<1, 2>>, <<2, 2>>}

JastrowInputs ==
    UNION {{[op |-> "input", nelec |-> c, coords_old |-> w, e |-> e, epos |-> x,
             parameters |-> CoefficientParameters(ac, bc)] :
               w \in [1..(c[1] + c[2]) -> JPos], e \in 0..(c[1] + c[2] - 1),
               x \in JPos, ac \in JastrowItems("acoeff"), bc \in JastrowItems("bcoeff")} :
           c \in JastrowCounts}

InitJastrow ==
    /\ lastcall \in JastrowInputs
    /\ ret = None
    /\ NoObject

\* evaluate_testvalue for the move, and evaluate_jastrow before and after it
CallEvaluateTestvalue ==
    /\ lastcall.op = "input"
    /\ ret' = [testvalue |-> evaluate_testvalue(lastcall.nelec, lastcall.parameters,
                                 lastcall.coords_old, lastcall.e,
                                 IF lastcall.e >= lastcall.nelec[1] THEN 1 ELSE 0,
                                 lastcall.epos),
               old |-> evaluate_jastrow(lastcall.nelec, lastcall.parameters,
                                        lastcall.coords_old),
               new |-> evaluate_jastrow(lastcall.nelec, lastcall.parameters,
                           [lastcall.coords_old EXCEPT ![lastcall.e + 1] = lastcall.epos])]
    /\ lastcall' = [lastcall EXCEPT !.op = "evaluate_testvalue"]
    /\ UNCHANGED <<threads, parameters, jax_parameters, self_expansion,
                   _sign, _logabs, _dets_up, _dets_down, cached>>

NextJastrow == CallEvaluateTestvalue

SpecJastrow == InitJastrow /\ [][NextJastrow]_vars

(***************************************************************************)
(* The two parameter maps on their own: a JAXSlater's or a                 *)
(* JAXJastrowSpin's map after construction, and callers that assign,       *)
(* delete, clear and update.                                               *)
(***************************************************************************)
InitJastrowMap ==
    /\ jax_parameters = CoefficientParameters(acoeff_init, bcoeff_init)
    /\ parameters = jastrow_parameterMap_init(jax_parameters)
    /\ self_expansion = None
    /\ _sign = None
    /\ _logabs = None
    /\ _dets_up = None
    /\ _dets_down = None
    /\ cached = None
    /\ threads = None
    /\ lastcall = [op |-> "__init__"]
    /\ ret = None

InitMaps == Init \/ InitJastrowMap

\* which of the two classes the map belongs to
SlaterMap == DOMAIN parameters = Keys

\* a key of the map or a key it does not hold
DelKeys == Keys \cup JastrowKeys \cup {"missing"}

SlaterSetitem == SlaterMap /\ CallSetitem

\* a determinant coefficient that float64 holds and float32 does not:
\* 1 + 2^-30
DoubleItems == {<<<<1073741825, 1073741824>>>>}

SlaterSetitemDouble ==
    SlaterMap /\ Idle /\ \E item \in DoubleItems : parameterMap_setitem("det_coeff", item)

SlaterGetitem == SlaterMap /\ Idle /\ \E key \in Keys : parameterMap_getitem(key)

SlaterLen == SlaterMap /\ Idle /\ parameterMap_len

SlaterCopy == SlaterMap /\ Idle /\ parameterMap_copy

SlaterHasKey == SlaterMap /\ Idle /\ \E k \in DelKeys : parameterMap_has_key(k)

SlaterKeys == SlaterMap /\ Idle /\ parameterMap_keys

SlaterValues == SlaterMap /\ Idle /\ parameterMap_values

SlaterDelitem == SlaterMap /\ Idle /\ \E key \in DelKeys : parameterMap_delitem(key)

SlaterClear == SlaterMap /\ Idle /\ parameterMap_clear

SlaterUpdate ==
    /\ SlaterMap
    /\ Idle
    /\ \E key \in Keys : \E item \in Items(key, self_expansion) :
        parameterMap_update(key, item)

JastrowSetitem ==
    /\ ~SlaterMap
    /\ Idle
    /\ \E key \in JastrowKeys : \E item \in JastrowItems(key) :
        jastrow_parameterMap_setitem(key, item)

JastrowDelitem ==
    ~SlaterMap /\ Idle /\ \E key \in DelKeys : jastrow_parameterMap_delitem(key)

JastrowClear == ~SlaterMap /\ Idle /\ jastrow_parameterMap_clear

JastrowUpdate ==
    /\ ~SlaterMap
    /\ Idle
    /\ \E key \in JastrowKeys : \E item \in JastrowItems(key) :
        jastrow_parameterMap_update(key, item)

NextMaps ==
    \/ SlaterSetitem
    \/ SlaterSetitemDouble
    \/ SlaterGetitem
    \/ SlaterLen
    \/ SlaterCopy
    \/ SlaterHasKey
    \/ SlaterKeys
    \/ SlaterValues
    \/ SlaterDelitem
    \/ SlaterClear
    \/ SlaterUpdate
    \/ JastrowSetitem
    \/ JastrowDelitem
    \/ JastrowClear
    \/ JastrowUpdate
    \/ forget

SpecMaps == InitMaps /\ [][NextMaps]_vars

(***************************************************************************)
(* lm_cvmc (pyqmc.cvmc): correlated sampling of a list of serialized       *)
(* parameter vectors on one batch of configurations, with a JAXSlater as   *)
(* the wave function.  The accumulator has no density-matrix evaluators;   *)
(* its energy accumulator is observed through the configurations and the   *)
(* parameters it was called with.                                          *)
(***************************************************************************)
\* the longest params list of a call
MaxParams == 2

Reshape(v, rows, cols) ==
    Tup([a \in 1..rows |-> SubSeq(v, (a - 1) * cols + 1, a * cols)])

\* acc.transform.serialize: the entries of det_coeff, mo_coeff_alpha and
\* mo_coeff_beta in one vector
serialize(dp) ==
    dp.ci_coeff \o Flatten(dp.mo_coeff_alpha) \o Flatten(dp.mo_coeff_beta)

\* acc.transform.deserialize: the dictionary of arrays a vector stands for,
\* in the shapes of the wave function's parameters
deserialize(v, shapes) ==
    With(Len(shapes["det_coeff"]), LAMBDA nc :
    With(Len(shapes["mo_coeff_alpha"]), LAMBDA rows :
    With(Len(shapes["mo_coeff_alpha"][1]), LAMBDA cols :
        [k \in Keys |->
            IF k = "det_coeff" THEN SubSeq(v, 1, nc)
            ELSE IF k = "mo_coeff_alpha"
            THEN Reshape(SubSeq(v, nc + 1, nc + rows * cols), rows, cols)
            ELSE Reshape(SubSeq(v, nc + rows * cols + 1, Len(v)), rows, cols)])))

\* the parameter lists a caller passes: up to MaxParams serialized vectors
ParamVectors == {serialize(dp) : dp \in ParamSpace(SingleDeterminant)}

ParamLists == UNION {[1..n -> ParamVectors] : n \in 0..MaxParams}

\* wf.parameters[k] = newparms[k] for every key: the jax_parameters that result
assigned(newparms) ==
    DeterminantParameters(newparms["det_coeff"], newparms["mo_coeff_alpha"],
                          newparms["mo_coeff_beta"])

\* np.exp(2 * (psi - psi0)), one weight per configuration
rawweights(psi, psi0) ==
    Tup([i \in 1..Len(psi) |->
        Mul(Exp(LSub(psi[i], psi0[i])), Exp(LSub(psi[i], psi0[i])))])

\* wf.recompute(configs)[1] under the parameters dp
logabs_under(dp, configs) ==
    Tup([i \in 1..Len(configs) |-> _recompute(dp, configs)[i].logabs])

\* acc.enacc(configs, wf): the accumulator's dictionary, here the
\* configurations and the wave function parameters it was evaluated with
enacc(configs, dp) == [configs |-> configs, parameters |-> dp]

\* wf.recompute(configs) under parameter arrays that an optimizer reached:
\* the compiled function, evaluated where it is not tabulated
recompute_at(dp, configs) ==
    IF dp \in ParamSpace(SingleDeterminant) THEN _recompute(dp, configs)
    ELSE Tup([i \in 1..Len(configs) |->
             evaluate_expansion(SingleDeterminant, _nelec, dp, configs[i])])

\* what lm_cvmc does to the wave function: the parameters of the last entry
\* are left assigned and the cache holds their evaluation on configs
lm_cvmc_wf(configs, params) ==
    /\ parameters' = (IF params = <<>> THEN parameters
                      ELSE deserialize(params[Len(params)], parameters))
    /\ jax_parameters' = (IF params = <<>> THEN jax_parameters
                          ELSE assigned(parameters'))
    /\ \E r \in {recompute_at(jax_parameters', configs)} :
        /\ _sign' = Tup([i \in 1..Len(configs) |-> r[i].sign])
        /\ _logabs' = Tup([i \in 1..Len(configs) |-> r[i].logabs])
        /\ _dets_up' = Tup([i \in 1..Len(configs) |-> r[i].dets_up])
        /\ _dets_down' = Tup([i \in 1..Len(configs) |-> r[i].dets_down])
    /\ cached' = [xyz |-> configs, params |-> jax_parameters']

lm_cvmc(configs, params) ==
    /\ \E psi0 \in {logabs_under(jax_parameters, configs)} :
           ret' = Tup([k \in 1..Len(params) |->
                      [configs |-> enacc(configs, assigned(deserialize(params[k], parameters))).configs,
                       parameters |-> enacc(configs, assigned(deserialize(params[k], parameters))).parameters,
                       weight |-> rawweights(
                           logabs_under(assigned(deserialize(params[k], parameters)), configs),
                           psi0)]])
    /\ lm_cvmc_wf(configs, params)
    /\ lastcall' = [op |-> "lm_cvmc", configs |-> configs, params |-> params,
                    entry |-> jax_parameters]
    /\ UNCHANGED <<threads, self_expansion>>

CallLmCvmc(n, P) ==
    /\ Idle
    /\ \E configs \in Batches(n, P), params \in ParamLists : lm_cvmc(configs, params)

NextCVMC == CallSetitem \/ CallLmCvmc(1, Pos) \/ forget

SpecCVMC == Init /\ [][NextCVMC]_vars

(***************************************************************************)
(* cvmc_optimize (pyqmc.cvmc) on a JAXSlater with lm = lm_cvmc, no          *)
(* hdf_file and no forcing.  lastcall is the frame of the call: its        *)
(* arguments and locals (it, x0, configs, the grad of the iteration, df)   *)
(* and its position; vmc_calls observes every vmc call: the parameters the *)
(* wave function had, the configurations it started from and those it      *)
(* returned.  The sampler, the averages it returns and the fit of the line *)
(* search are outside the repository: vmc returns any batch, objderiv is   *)
(* any of a few directions and est_min any of a few step lengths.          *)
(***************************************************************************)
MaxIters == 2

\* the vector with d at (0-based) index j of a vector as long as x
direction(x, j, d) == Tup([a \in 1..Len(x) |-> IF a = j + 1 THEN Num(d) ELSE Zero])

\* the values of grad["objderiv"]: no slope, a slope in the determinant
\* coefficient, a slope in one orbital coefficient
Directions(x) == {direction(x, 0, 0), direction(x, 0, 2), direction(x, 2, 2)}

\* the values of est_min
StepLengths == {Zero, Norm(1, 4)}

\* x0 - tau * objderiv
line_point(x0, tau, objderiv) ==
    Tup([a \in 1..Len(x0) |-> Sub(x0[a], Mul(tau, objderiv[a]))])

\* np.linspace(0, tstep, npts + 1) with taus[0] = -tstep / (npts - 1)
taus(tstep, npts) ==
    Tup([j \in 1..(npts + 1) |->
        IF j = 1 THEN Neg(Div(tstep, Num(npts - 1))) ELSE Mul(tstep, Norm(j - 1, npts))])

\* the wave function is left as the line search left it
parameters_left_by_lm(x, current) == current

\* get_obj_deriv: wf.parameters[k] = p for every item of deserialize(x)
parameters_for_vmc(x, current) == deserialize(x, current)

OptInputs ==
    {[op |-> "cvmc_optimize", pc |-> "vmc", iters |-> n, tstep |-> Norm(1, 2),
      npts |-> 2, it |-> 0, x0 |-> serialize(jax_parameters), configs |-> c,
      grad |-> <<>>, df |-> <<>>, vmc_calls |-> <<>>] :
        n \in 0..MaxIters, c \in Batches(1, Pos)}

\* cvmc_optimize is called on a JAXSlater after construction
CallCvmcOptimize ==
    /\ lastcall.op = "__init__"
    /\ lastcall' \in OptInputs
    /\ UNCHANGED <<ret, threads, parameters, jax_parameters, self_expansion,
                   _sign, _logabs, _dets_up, _dets_down, cached>>

\* grad = get_obj_deriv(x0) with grad["iteration"] and grad["parameters"]:
\* the parameters are assigned, vmc samples from configs and its
\* configurations replace configs
OptVmc ==
    /\ lastcall.op = "cvmc_optimize"
    /\ lastcall.pc = "vmc"
    /\ lastcall.it < lastcall.iters
    /\ parameters' = parameters_for_vmc(lastcall.x0, parameters)
    /\ jax_parameters' = assigned(parameters')
    /\ \E out \in Batches(1, Pos), objderiv \in Directions(lastcall.x0) :
        /\ \E r \in {recompute_at(jax_parameters', out)} :
            /\ _sign' = Tup([i \in 1..Len(out) |-> r[i].sign])
            /\ _logabs' = Tup([i \in 1..Len(out) |-> r[i].logabs])
            /\ _dets_up' = Tup([i \in 1..Len(out) |-> r[i].dets_up])
            /\ _dets_down' = Tup([i \in 1..Len(out) |-> r[i].dets_down])
        /\ cached' = [xyz |-> out, params |-> jax_parameters']
        /\ lastcall' = [lastcall EXCEPT
               !.pc = "lm",
               !.configs = out,
               !.grad = [objderiv |-> objderiv, iteration |-> lastcall.it,
                         parameters |-> lastcall.x0],
               !.vmc_calls = Append(@, [parameters |-> parameters',
                                        configs |-> lastcall.configs,
                                        returned |-> out])]
    /\ UNCHANGED <<ret, threads, self_expansion>>

\* the line search: lm(wf, configs, params, acc) on the trial points
OptLm ==
    /\ lastcall.op = "cvmc_optimize"
    /\ lastcall.pc = "lm"
    /\ lm_cvmc_wf(lastcall.configs,
                  Tup([j \in 1..(lastcall.npts + 1) |->
                      line_point(lastcall.x0, taus(lastcall.tstep, lastcall.npts)[j],
                                 lastcall.grad.objderiv)]))
    /\ lastcall' = [lastcall EXCEPT !.pc = "fit"]
    /\ UNCHANGED <<ret, threads, self_expansion>>

\* the fit: x0 moves by est_min along objderiv and grad is appended to df
OptFit ==
    /\ lastcall.op = "cvmc_optimize"
    /\ lastcall.pc = "fit"
    /\ \E est_min \in StepLengths :
        lastcall' = [lastcall EXCEPT
            !.pc = "vmc",
            !.x0 = line_point(@, est_min, lastcall.grad.objderiv),
            !.df = Append(@, [iteration |-> lastcall.grad.iteration,
                              parameters |-> lastcall.grad.parameters]),
            !.it = @ + 1]
    /\ UNCHANGED <<ret, threads, parameters, jax_parameters, self_expansion,
                   _sign, _logabs, _dets_up, _dets_down, cached>>

\* after the loop the parameters of x0 are assigned and (wf, df) returned
OptReturn ==
    /\ lastcall.op = "cvmc_optimize"
    /\ lastcall.pc = "vmc"
    /\ lastcall.it >= lastcall.iters
    /\ parameters' = deserialize(lastcall.x0, parameters)
    /\ jax_parameters' = assigned(parameters')
    /\ lastcall' = [lastcall EXCEPT !.pc = "returned"]
    /\ ret' = lastcall.df
    /\ UNCHANGED <<threads, self_expansion, _sign, _logabs, _dets_up, _dets_down, cached>>

NextOpt == CallCvmcOptimize \/ OptVmc \/ OptLm \/ OptFit \/ OptReturn

SpecOpt == Init /\ [][NextOpt]_vars

(***************************************************************************)
(* distvmc (pyqmc.parsltools): a VMC run split over partitions of the      *)
(* walkers and epochs of nsteps_per steps, each piece a parsl app that     *)
(* runs when the piece it continues is done.  lastcall is the frame of the *)
(* call: its arguments and locals (epoch, p, allruns) and its position.    *)
(* A walker is its number and the number of steps it has been moved.       *)
(***************************************************************************)
\* the largest nsteps and nsteps_per of a call
MaxSteps == 3

VMCWalkers == <<[id |-> 1, steps |-> 0], [id |-> 2, steps |-> 0]>>

\* pyqmc.mc.vmc: every walker is moved nsteps steps
vmc(coords, nsteps) ==
    Tup([i \in 1..Len(coords) |-> [coords[i] EXCEPT !.steps = @ + nsteps]])

\* np.split(coords, n) for n dividing the number of walkers
np_split(coords, n) ==
    Tup([q \in 1..n |->
        SubSeq(coords, (q - 1) * (Len(coords) \div n) + 1, q * (Len(coords) \div n))])

\* int(nsteps / nsteps_per)
niterations(nsteps, nsteps_per) == nsteps \div nsteps_per

\* allruns[-1]: the run submitted last
last_submitted(allruns, npartitions) == Len(allruns)

\* allruns[-npartitions] at the time of the append
continued_run(allruns, npartitions) == Len(allruns) + 1 - npartitions

\* the records pyqmc.mc.vmc returns for run r: one per step, numbered from
\* stepoffset
vmc_records(r, run) ==
    Tup([j \in 1..run.nsteps |-> [task |-> r, step |-> run.stepoffset + j]])

\* nsteps_per is <<>> when the argument is left out, <<k>> when k is given
VMCInputs ==
    {[op |-> "distvmc", pc |-> "loop", nsteps |-> n, nsteps_per_arg |-> a,
      nsteps_per |-> (IF a = <<>> THEN n ELSE a[1]),
      npartitions |-> np, coords |-> VMCWalkers,
      epoch |-> 0, p |-> 0, allruns |-> <<>>, i |-> 0, df |-> <<>>] :
        n \in 1..MaxSteps, a \in {<<>>} \cup {<<k>> : k \in 1..MaxSteps},
        np \in {1, 2}}

InitVMC ==
    /\ lastcall \in VMCInputs
    /\ ret = None
    /\ NoObject

\* one pass of the inner loop body: a vmcparsl app is submitted for partition
\* p, continuing the initial coordinates or the run allruns[-npartitions]
VMCSubmit ==
    /\ lastcall.op = "distvmc"
    /\ lastcall.pc = "loop"
    /\ lastcall.epoch < niterations(lastcall.nsteps, lastcall.nsteps_per)
    /\ lastcall' = [lastcall EXCEPT
           !.allruns = Append(@,
               [partition |-> lastcall.p,
                lastrun |-> IF lastcall.epoch = 0
                            THEN np_split(lastcall.coords, lastcall.npartitions)[lastcall.p + 1]
                            ELSE <<>>,
                after |-> IF lastcall.epoch = 0 THEN 0
                          ELSE continued_run(lastcall.allruns, lastcall.npartitions),
                nsteps |-> lastcall.nsteps_per,
                stepoffset |-> lastcall.epoch * lastcall.nsteps_per,
                done |-> FALSE,
                result |-> <<>>]),
           !.p = IF lastcall.p + 1 = lastcall.npartitions THEN 0 ELSE lastcall.p + 1,
           !.epoch = IF lastcall.p + 1 = lastcall.npartitions THEN @ + 1 ELSE @]
    /\ UNCHANGED <<ret, threads, parameters, jax_parameters, self_expansion,
                   _sign, _logabs, _dets_up, _dets_down, cached>>

\* the loops are over: the caller starts polling
VMCLoopDone ==
    /\ lastcall.op = "distvmc"
    /\ lastcall.pc = "loop"
    /\ lastcall.epoch >= niterations(lastcall.nsteps, lastcall.nsteps_per)
    /\ lastcall' = [lastcall EXCEPT !.pc = "wait"]
    /\ UNCHANGED <<ret, threads, parameters, jax_parameters, self_expansion,
                   _sign, _logabs, _dets_up, _dets_down, cached>>

\* vmcparsl: a submitted app runs once the run it continues is done
VMCRun ==
    /\ lastcall.op = "distvmc"
    /\ \E r \in 1..Len(lastcall.allruns) :
        /\ ~lastcall.allruns[r].done
        /\ IF lastcall.allruns[r].after = 0 THEN TRUE
           ELSE lastcall.allruns[lastcall.allruns[r].after].done
        /\ lastcall' = [lastcall EXCEPT
               !.allruns[r].done = TRUE,
               !.allruns[r].result =
                   vmc(IF lastcall.allruns[r].after = 0
                       THEN lastcall.allruns[r].lastrun
                       ELSE lastcall.allruns[lastcall.allruns[r].after].result,
                       lastcall.allruns[r].nsteps)]
    /\ UNCHANGED <<ret, threads, parameters, jax_parameters, self_expansion,
                   _sign, _logabs, _dets_up, _dets_down, cached>>

\* one pass of the for loop inside the polling loop: the records of run
\* i are appended to df if the run is done at this moment
VMCPoll ==
    /\ lastcall.op = "distvmc"
    /\ lastcall.pc = "wait"
    /\ lastcall.i < Len(lastcall.allruns)
    /\ lastcall' = [lastcall EXCEPT
           !.i = @ + 1,
           !.df = IF lastcall.allruns[lastcall.i + 1].done
                  THEN @ \o vmc_records(lastcall.i + 1, lastcall.allruns[lastcall.i + 1])
                  ELSE @]
    /\ UNCHANGED <<ret, threads, parameters, jax_parameters, self_expansion,
                   _sign, _logabs, _dets_up, _dets_down, cached>>

\* the for loop is over and some app is not done: the caller sleeps and
\* starts the next polling round with an empty df
VMCSleep ==
    /\ lastcall.op = "distvmc"
    /\ lastcall.pc = "wait"
    /\ lastcall.i >= Len(lastcall.allruns)
    /\ \E r \in 1..Len(lastcall.allruns) : ~lastcall.allruns[r].done
    /\ lastcall' = [lastcall EXCEPT !.i = 0, !.df = <<>>]
    /\ UNCHANGED <<ret, threads, parameters, jax_parameters, self_expansion,
                   _sign, _logabs, _dets_up, _dets_down, cached>>

\* the for loop is over and every app is done: the polling loop is left, the
\* coordinates of the last npartitions runs are concatenated
\* (np.concatenate raises ValueError on an empty list) and df is returned
VMCReturn ==
    /\ lastcall.op = "distvmc"
    /\ lastcall.pc = "wait"
    /\ lastcall.i >= Len(lastcall.allruns)
    /\ \A r \in 1..Len(lastcall.allruns) : lastcall.allruns[r].done
    /\ lastcall' = [lastcall EXCEPT !.pc = "returned"]
    /\ ret' = IF lastcall.allruns = <<>>
              THEN [raised |-> TRUE, coords |-> <<>>, df |-> <<>>]
              ELSE [raised |-> FALSE,
                    coords |-> Flatten(Tup([q \in 1..lastcall.npartitions |->
                        lastcall.allruns[Len(lastcall.allruns)
                                         - lastcall.npartitions + q].result])),
                    df |-> lastcall.df]
    /\ UNCHANGED <<threads, parameters, jax_parameters, self_expansion,
                   _sign, _logabs, _dets_up, _dets_down, cached>>

NextVMC == VMCSubmit \/ VMCLoopDone \/ VMCRun \/ VMCPoll \/ VMCSleep \/ VMCReturn

SpecVMC == InitVMC /\ [][NextVMC]_vars

\* the caller keeps running and parsl runs every app whose input is ready
SpecVMCLive ==
    /\ SpecVMC
    /\ WF_vars(VMCSubmit \/ VMCLoopDone \/ VMCPoll \/ VMCSleep \/ VMCReturn)
    /\ WF_vars(VMCRun)

(***************************************************************************)
(* dist_lm_sampler (pyqmc.parsltools): correlated sampling of a list of    *)
(* parameter steps, the configurations split over partitions, each         *)
(* partition an lmparsl app.  lastcall is the frame of the call: its       *)
(* arguments and locals (p, allruns, the step of the result loop, df,      *)
(* data) and its position.  A configuration is its number, a parameter     *)
(* step the number that names its vector; an accumulated value is observed *)
(* through its key, the configuration and the step it was computed from.   *)
(***************************************************************************)
MaxLMSteps == 2

LMKeys == {"dpH", "dppsi", "dpidpj", "total"}

\* pyqmc.linemin.lm_sampler: one dict per parameter step, each value an
\* array with one row per configuration
lm_sampler(configs, params) ==
    Tup([s \in 1..Len(params) |->
        [k \in LMKeys |->
            Tup([c \in 1..Len(configs) |->
                [key |-> k, config |-> configs[c], step |-> params[s]]])]])

\* lmparsl: lm_sampler on the partition's configurations, every array
\* turned into a list
lmparsl(configs, params) ==
    Tup([s \in 1..Len(params) |->
        [k \in LMKeys |-> Tup(lm_sampler(configs, params)[s][k])]])

\* zip(*[x.result() for x in allruns]): as many tuples as the shortest
\* result has steps, tuple s holding every partition's dict of step s
stepsresults(allruns) ==
    IF allruns = <<>> THEN <<>>
    ELSE Tup([s \in 1..IMinSeq(Tup([q \in 1..Len(allruns) |-> Len(allruns[q].result)])) |->
             Tup([q \in 1..Len(allruns) |-> allruns[q].result[s]])])

\* np.concatenate([r[k] for r in result], axis=0)
np_concatenate(result, k) ==
    Flatten(Tup([q \in 1..Len(result) |-> result[q][k]]))

\* data.append(df) without the copy: every entry is the one dict df
append_same_dict(data, df) == Tup([i \in 1..(Len(data) + 1) |-> df])

\* data.append(df.copy())
append_copy(data, df) == Append(data, df)

LMInputs ==
    {[op |-> "dist_lm_sampler", pc |-> "submit", npartitions |-> np,
      configs |-> Tup([c \in 1..n |-> c]),
      params |-> Tup([s \in 1..m |-> m + 1 - s]),
      p |-> 0, allruns |-> <<>>, step |-> 0, df |-> <<>>, data |-> <<>>] :
        np \in {1, 2, 4}, n \in {4}, m \in 0..MaxLMSteps}

InitLM ==
    /\ lastcall \in LMInputs
    /\ ret = None
    /\ NoObject

\* one pass of the submission loop: an lmparsl app for partition p
LMSubmit ==
    /\ lastcall.op = "dist_lm_sampler"
    /\ lastcall.pc = "submit"
    /\ lastcall.p < lastcall.npartitions
    /\ lastcall' = [lastcall EXCEPT
           !.allruns = Append(@,
               [configs |-> np_split(lastcall.configs, lastcall.npartitions)[lastcall.p + 1],
                done |-> FALSE,
                result |-> <<>>]),
           !.p = @ + 1]
    /\ UNCHANGED <<ret, threads, parameters, jax_parameters, self_expansion,
                   _sign, _logabs, _dets_up, _dets_down, cached>>

\* the submission loop is over: the caller starts polling
LMSubmitted ==
    /\ lastcall.op = "dist_lm_sampler"
    /\ lastcall.pc = "submit"
    /\ lastcall.p >= lastcall.npartitions
    /\ lastcall' = [lastcall EXCEPT !.pc = "wait"]
    /\ UNCHANGED <<ret, threads, parameters, jax_parameters, self_expansion,
                   _sign, _logabs, _dets_up, _dets_down, cached>>

\* a submitted app runs to its end
LMRun ==
    /\ lastcall.op = "dist_lm_sampler"
    /\ \E r \in 1..Len(lastcall.allruns) :
        /\ ~lastcall.allruns[r].done
        /\ lastcall' = [lastcall EXCEPT
               !.allruns[r].done = TRUE,
               !.allruns[r].result = lmparsl(lastcall.allruns[r].configs, lastcall.params)]
    /\ UNCHANGED <<ret, threads, parameters, jax_parameters, self_expansion,
                   _sign, _logabs, _dets_up, _dets_down, cached>>

\* one pass of the polling loop: leave it when every app is done, sleep
\* otherwise
LMPoll ==
    /\ lastcall.op = "dist_lm_sampler"
    /\ lastcall.pc = "wait"
    /\ lastcall' = IF \A r \in 1..Len(lastcall.allruns) : lastcall.allruns[r].done
                   THEN [lastcall EXCEPT !.pc = "collect"]
                   ELSE lastcall
    /\ UNCHANGED <<ret, threads, parameters, jax_parameters, self_expansion,
                   _sign, _logabs, _dets_up, _dets_down, cached>>

\* one pass of the result loop: the four keys of df are assigned the
\* concatenation over the partitions, and a copy of df is appended to data
LMCollect ==
    /\ lastcall.op = "dist_lm_sampler"
    /\ lastcall.pc = "collect"
    /\ lastcall.step < Len(stepsresults(lastcall.allruns))
    /\ \E df \in {[k \in LMKeys |->
                   np_concatenate(stepsresults(lastcall.allruns)[lastcall.step + 1], k)]} :
        lastcall' = [lastcall EXCEPT
            !.df = df,
            !.data = append_copy(@, df),
            !.step = @ + 1]
    /\ UNCHANGED <<ret, threads, parameters, jax_parameters, self_expansion,
                   _sign, _logabs, _dets_up, _dets_down, cached>>

LMReturn ==
    /\ lastcall.op = "dist_lm_sampler"
    /\ lastcall.pc = "collect"
    /\ lastcall.step >= Len(stepsresults(lastcall.allruns))
    /\ lastcall' = [lastcall EXCEPT !.pc = "returned"]
    /\ ret' = lastcall.data
    /\ UNCHANGED <<threads, parameters, jax_parameters, self_expansion,
                   _sign, _logabs, _dets_up, _dets_down, cached>>

NextLM == LMSubmit \/ LMSubmitted \/ LMRun \/ LMPoll \/ LMCollect \/ LMReturn

SpecLM == InitLM /\ [][NextLM]_vars

(***************************************************************************)
(* Properties of the JAXSlater object (checked under Spec)                 *)
(***************************************************************************)
ReaderOps == {"testvalue", "gradient", "gradient_value", "gradient_laplacian",
              "laplacian"}

\* the cached SlaterState of configuration i: sign, logabsdet and inverse of
\* both spin channels
SlaterStateOf(up, down, i) ==
    <<up[i].sign, up[i].logabsdet, up[i].inverse,
      down[i].sign, down[i].logabsdet, down[i].inverse>>

\* C1: updateinternals called with a mask on a populated cache leaves the
\* cached SlaterState of every configuration whose mask entry is false
\* identical to what it was before the call.
C1_MaskedOutStateKept ==
    [][(lastcall'.op = "updateinternals" /\ lastcall'.mask # None
            /\ _dets_up # None)
       => \A i \in 1..Len(lastcall'.mask) :
              ~lastcall'.mask[i]
              => SlaterStateOf(_dets_up', _dets_down', i)
                     = SlaterStateOf(_dets_up, _dets_down, i)]_vars

\* C2: testvalue, gradient, gradient_value, gradient_laplacian and laplacian
\* are read-only: after the call _sign, _logabs, _dets_up and _dets_down are
\* exactly what they were before the call.
C2_ReadersKeepCache ==
    [][lastcall'.op \in ReaderOps => cache' = cache]_vars

\* C2 witness: a reader has returned a result computed from a populated cache
C2_ReaderReturned ==
    /\ lastcall.op \in ReaderOps
    /\ _dets_up # None
    /\ cached.xyz # None

\* C3: no reader call combines the current parameters with a cached state that
\* was computed under other parameters: whenever a reader has returned, the
\* cache it read was computed from the parameters it used.
C3_NoStaleRead ==
    (lastcall.op \in ReaderOps /\ _dets_up # None)
        => cached.params = jax_parameters

\* C4: ratio consistency.  When the cache is the full evaluation under the
\* current parameters (s0, l0), testvalue(e, x) has returned the ratio r, and
\* the move is committed for every configuration (updateinternals runs the
\* full recompute on the moved configurations), the new result (s1, l1) is
\* s1 = sign(r) * s0 and l1 = l0 + log|r|.
C4_RatioConsistency ==
    [][(Proposed /\ lastcall.mask = [i \in 1..Len(ret[2]) |-> TRUE]
            /\ cached.params = jax_parameters
            /\ lastcall'.op = "updateinternals"
            /\ lastcall'.mask = lastcall.mask)
       => \A i \in 1..Len(ret[2]) :
              /\ _sign'[i] = Mul(SignOf(ret[1][i]), _sign[i])
              /\ _logabs'[i] = LAdd(_logabs[i], Log(AbsOf(ret[1][i])))]_vars

\* the parameter arrays the parameter dictionary holds
CurrentParameters ==
    DeterminantParameters(parameters["det_coeff"], parameters["mo_coeff_alpha"],
                          parameters["mo_coeff_beta"])

\* C5: after recompute(configs), from any prior state, the cached _sign,
\* _logabs, _dets_up and _dets_down equal the full evaluation of configs under
\* the current parameters, and the call returns the cached (_sign, _logabs).
C5_RecomputeIsFullEvaluation ==
    lastcall.op = "recompute"
        => /\ ret = <<_sign, _logabs>>
           /\ Len(_sign) = Len(lastcall.configs)
           /\ \A i \in 1..Len(lastcall.configs) :
                  With(evaluate_expansion(self_expansion, _nelec, CurrentParameters,
                                          lastcall.configs[i]), LAMBDA full :
                      /\ _sign[i] = full.sign
                      /\ _logabs[i] = full.logabs
                      /\ _dets_up[i] = full.dets_up
                      /\ _dets_down[i] = full.dets_down)

\* C5 witness: recompute has run after the orbital coefficients were replaced,
\* on a configuration away from the node
C5_RecomputedAfterAssignment ==
    /\ lastcall.op = "recompute"
    /\ parameters["mo_coeff_alpha"] = TruncCols(MOCoeffB, NOrb(SingleDeterminant))
    /\ _sign[1] = Neg(One)
    /\ IsFinite(_logabs[1].log)

\* C7: no-op move.  With a non-singular cached state, testvalue(e, current
\* position of e) returns the ratio exactly 1.
C7_NoOpMoveRatioOne ==
    (Proposed /\ lastcall.mask = [i \in 1..Len(ret[2]) |-> TRUE]
        /\ lastcall.e \in Electrons
        /\ lastcall.epos = electron(cached.xyz, lastcall.e)
        /\ \A i \in 1..Len(_sign) : _sign[i] \in {One, Neg(One)})
    => \A i \in 1..Len(ret[1]) : ret[1][i] = One

\* C10: a node is returned as data.  When every combined per-term
\* log-magnitude of a configuration is -infinity, recompute returns sign 0 and
\* log-magnitude -infinity for it.
C10_NodeIsData ==
    lastcall.op = "recompute"
        => \A i \in 1..Len(lastcall.configs) :
               (\A t \in 1..Len(self_expansion.mapping_up) :
                    combine_logdets(_dets_up[i], _dets_down[i], self_expansion)[t]
                        = LNegInf)
               => (ret[1][i] = Zero /\ ret[2][i] = LNegInf)

\* the methods of JAXSlater
MethodOps ==
    {"recompute", "updateinternals", "testvalue", "gradient",
     "gradient_value", "gradient_laplacian", "laplacian", "pgradient"}

\* C16: recompute, testvalue, updateinternals, gradient, gradient_value,
\* gradient_laplacian, laplacian and pgradient leave the parameter dictionary
\* and jax_parameters unchanged; the two change only in a step of
\* _parameterMap.__setitem__.
C16_MethodsKeepParameters ==
    [][/\ lastcall'.op \in MethodOps
           => (parameters' = parameters /\ jax_parameters' = jax_parameters)
       /\ (parameters' # parameters \/ jax_parameters' # jax_parameters)
           => lastcall'.op = "__setitem__"]_vars

\* C16 witness: pgradient has returned finite derivatives under parameters
\* other than those of construction
C16_PgradientAfterAssignment ==
    /\ lastcall.op = "pgradient"
    /\ parameters["det_coeff"] # <<Num(1)>>
    /\ parameters["mo_coeff_alpha"] # parameters["mo_coeff_beta"]
    /\ IsFinite(ret[1].det_coeff[1])
    /\ ret[1].mo_coeff_alpha # ret[1].mo_coeff_beta

\* C21: updateinternals always performs a full recompute: for every e, epos,
\* mask and saved_values the call leaves the cached state equal to what
\* recompute(configs) produces, the Sherman-Morrison branch (which stores
\* states without mo_values) is never executed, and a call with the configs
\* the cache was already computed from leaves the state as it is.
C21_UpdateinternalsRecomputes ==
    [][lastcall'.op = "updateinternals"
       => /\ \A i \in 1..Len(lastcall'.configs) :
               /\ _sign'[i] = _recompute(jax_parameters, lastcall'.configs)[i].sign
               /\ _logabs'[i] = _recompute(jax_parameters, lastcall'.configs)[i].logabs
               /\ _dets_up'[i] = _recompute(jax_parameters, lastcall'.configs)[i].dets_up
               /\ _dets_down'[i] = _recompute(jax_parameters, lastcall'.configs)[i].dets_down
               /\ _dets_up'[i].mo_values # None
               /\ _dets_down'[i].mo_values # None
          /\ Len(_sign') = Len(lastcall'.configs)
          /\ (cached.xyz = lastcall'.configs /\ cached.params = jax_parameters)
             => cache' = cache]_vars

\* C21 witness: updateinternals was called with saved values and a mask that
\* accepts the move of a valid electron, and the cache holds the evaluation
\* of the moved configuration
C21_CommittedWithSavedValues ==
    /\ lastcall.op = "updateinternals"
    /\ lastcall.saved
    /\ lastcall.e \in Electrons
    /\ lastcall.mask = <<TRUE>>
    /\ lastcall.configs[1][lastcall.e + 1] = lastcall.epos[1]
    /\ _dets_up[1].mo_values # None
    /\ IsFinite(_logabs[1].log)

\* C11: an electron index outside 0 .. nelec_up + nelec_down - 1 passed to
\* testvalue, gradient, laplacian (or their combined forms) or updateinternals
\* makes the call raise: no such call returns normally.
C11_BadIndexRaises ==
    (lastcall.op \in ReaderOps \cup {"updateinternals"}
        /\ lastcall.e \notin Electrons)
    => lastcall.raised

(***************************************************************************)
(* Properties of the parameter maps (checked under SpecMaps)               *)
(***************************************************************************)
\* C17: on both _parameterMap classes, del map[key], clear() and update(...)
\* always raise NotImplementedError and leave the stored parameters and
\* jax_parameters unchanged.
C17_MapRefusesRemoval ==
    [][lastcall'.op \in {"__delitem__", "clear", "update"}
       => /\ lastcall'.raised
          /\ ret' = <<"NotImplementedError">>
          /\ parameters' = parameters
          /\ jax_parameters' = jax_parameters]_vars

\* C17 witness: update(...) has raised on a Jastrow map whose coefficients
\* had been assigned before
C17_UpdateRefused ==
    /\ lastcall.op = "update"
    /\ lastcall.raised
    /\ ~SlaterMap
    /\ parameters["bcoeff"] # bcoeff_init

(***************************************************************************)
(* Properties of the Jastrow factor (checked under SpecJastrow)            *)
(***************************************************************************)
\* C20: for every electron counts (nup, ndn), every electron e of either
\* spin and every new position, evaluate_testvalue returns
\* exp(logj_new - logj_old), where logj_old and logj_new are the logj values
\* evaluate_jastrow returns for the original configuration and for the
\* configuration with electron e moved.
C20_TestvalueIsLogjDifference ==
    lastcall.op = "evaluate_testvalue"
    => ret.testvalue = jnp_exp(Sub(ret.new.logj, ret.old.logj))

\* the methods of the map that only read
ReadOps == {"__getitem__", "__len__", "copy", "has_key", "keys", "values"}

\* each field of jax_parameters equals the array stored under its key
InSync ==
    /\ jax_parameters.ci_coeff = parameters["det_coeff"]
    /\ jax_parameters.mo_coeff_alpha = parameters["mo_coeff_alpha"]
    /\ jax_parameters.mo_coeff_beta = parameters["mo_coeff_beta"]

\* C23: _parameterMap keeps its device copy in sync: after any sequence of
\* __setitem__ calls on det_coeff, mo_coeff_alpha and mo_coeff_beta each
\* field of jax_parameters equals the value stored in the dictionary for its
\* key (assigning one key leaves the other two fields unchanged), and
\* __getitem__, copy, keys, values, has_key and len change neither.
C23_DeviceCopyInSync ==
    [][SlaterMap
       => /\ InSync'
          /\ lastcall'.op = "__setitem__"
             => /\ lastcall'.key # "det_coeff"
                   => jax_parameters'.ci_coeff = jax_parameters.ci_coeff
                /\ lastcall'.key # "mo_coeff_alpha"
                   => jax_parameters'.mo_coeff_alpha = jax_parameters.mo_coeff_alpha
                /\ lastcall'.key # "mo_coeff_beta"
                   => jax_parameters'.mo_coeff_beta = jax_parameters.mo_coeff_beta
          /\ lastcall'.op \in ReadOps
             => UNCHANGED <<parameters, jax_parameters>>]_vars

\* every call's tiled coefficient array has as many rows as its coordinates
RowsMatch(calls) ==
    \A c \in 1..Len(calls) : Len(calls[c].coeff) = Len(calls[c].coords)

\* C22: Jastrow coefficient tiling matches its coordinates: in every call of
\* the b-term and cusp partial-sum evaluators in evaluate_jastrow,
\* evaluate_testvalue and evaluate_derivative the tiled coefficient array has
\* exactly as many rows as the coordinate array it is summed against, for
\* all electron counts, nup # ndn included.
C22_TilingMatchesCoordinates ==
    lastcall.op = "evaluate_testvalue"
    => /\ RowsMatch(jastrow_calls(lastcall.nelec, lastcall.parameters,
               SubSeq(lastcall.coords_old, 1, lastcall.nelec[1]),
               SubSeqFrom(lastcall.coords_old, lastcall.nelec[1])))
       /\ RowsMatch(testvalue_calls(lastcall.nelec, lastcall.parameters,
               lastcall.coords_old,
               IF lastcall.e >= lastcall.nelec[1] THEN 1 ELSE 0))
       /\ RowsMatch(derivative_calls(lastcall.parameters,
               split_configs(lastcall.nelec, lastcall.coords_old, lastcall.e).configs_up,
               split_configs(lastcall.nelec, lastcall.coords_old, lastcall.e).configs_dn,
               IF lastcall.e >= lastcall.nelec[1] THEN 1 ELSE 0))

(***************************************************************************)
(* Properties of lm_cvmc (checked under SpecCVMC)                          *)
(***************************************************************************)
\* C19: lm_cvmc returns one dict per entry of params, in the order of
\* params, all evaluated on the same configs; the weight of entry p is
\* exp(2 * (psi_p - psi0)) with psi0 the log-magnitude under the parameters
\* the wave function had when lm_cvmc was entered, and an entry whose
\* parameters equal the entry parameters has weight 1 for every configuration.
C19_CorrelatedWeights ==
    lastcall.op = "lm_cvmc"
    => /\ Len(ret) = Len(lastcall.params)
       /\ \A k \in 1..Len(ret) :
           /\ serialize(ret[k].parameters) = lastcall.params[k]
           /\ ret[k].configs = lastcall.configs
           /\ ret[k].weight
                  = rawweights(logabs_under(ret[k].parameters, lastcall.configs),
                               logabs_under(lastcall.entry, lastcall.configs))
           /\ ret[k].parameters = lastcall.entry
              => \A i \in 1..Len(lastcall.configs) : ret[k].weight[i] = One

\* C27: cvmc_optimize samples at the current point: in every iteration the
\* vmc call runs with wf.parameters equal to the deserialization of the
\* current x0 (never with the last line-search trial point the previous
\* iteration's lm call left in wf) and starts from the configs returned by
\* the previous vmc call; on return wf.parameters equal the deserialization
\* of the final x0 and the returned list has exactly iters records with
\* iteration fields 0 .. iters-1.
C27_SamplesAtCurrentPoint ==
    lastcall.op = "cvmc_optimize"
    => /\ \A j \in 1..Len(lastcall.vmc_calls) :
            /\ lastcall.vmc_calls[j].parameters =
                   deserialize(IF j <= Len(lastcall.df) THEN lastcall.df[j].parameters
                               ELSE lastcall.x0, parameters)
            /\ j > 1 => lastcall.vmc_calls[j].configs = lastcall.vmc_calls[j - 1].returned
            /\ j > 1 => Len(lastcall.df) >= j - 1
       /\ \A j \in 2..Len(lastcall.df) : \E est_min \in StepLengths, d \in Directions(lastcall.x0) :
            lastcall.df[j].parameters = line_point(lastcall.df[j - 1].parameters, est_min, d)
       /\ lastcall.pc = "returned"
          => /\ parameters = deserialize(lastcall.x0, parameters)
             /\ Len(ret) = lastcall.iters
             /\ Len(lastcall.vmc_calls) = lastcall.iters
             /\ \A j \in 1..Len(ret) : ret[j].iteration = j - 1

\* two iterations have returned, the second sampled away from the trial
\* point the first line search left in the wave function
C27_SecondIterationAfterLineSearch ==
    /\ lastcall.op = "cvmc_optimize"
    /\ lastcall.pc = "returned"
    /\ lastcall.iters = 2
    /\ ret[2].parameters # ret[1].parameters
    /\ lastcall.vmc_calls[2].parameters["det_coeff"] = <<Norm(1, 2)>>
    /\ lastcall.vmc_calls[2].configs = lastcall.vmc_calls[1].returned

(***************************************************************************)
(* Properties of distvmc (checked under SpecVMC)                           *)
(***************************************************************************)
\* the steps submitted for partition q (0-based), summed over the epochs
PartitionSteps(q) ==
    SumSeq(Tup([r \in 1..Len(lastcall.allruns) |->
        IF lastcall.allruns[r].partition = q
        THEN Num(lastcall.allruns[r].nsteps) ELSE Zero]))

\* C18: distvmc moves each walker nsteps steps: for every nsteps >= 1 and
\* nsteps_per >= 1, given or defaulted, the steps of each partition summed
\* over the epochs equal nsteps, and distvmc returns the coordinates
\* reached, every walker moved nsteps steps.
C18_EachWalkerMovedNsteps ==
    (lastcall.op = "distvmc" /\ lastcall.pc = "returned")
    => /\ ~ret.raised
       /\ \A q \in 0..(lastcall.npartitions - 1) :
              PartitionSteps(q) = Num(lastcall.nsteps)
       /\ ret.coords = vmc(lastcall.coords, lastcall.nsteps)

\* C25: distvmc chains tasks per partition: for every epoch k >= 1 and
\* partition p the submitted task starts from the output of the task of epoch
\* k-1 and the same partition p, with stepoffset k*nsteps_per; epoch-0 tasks
\* start from the p-th split of the input coords; the returned coords are the
\* concatenation of the last epoch's outputs in partition order.
C25_TasksChainPerPartition ==
    lastcall.op = "distvmc"
    => /\ \A r \in 1..Len(lastcall.allruns) :
            With((r - 1) \div lastcall.npartitions, LAMBDA k :
            With((r - 1) % lastcall.npartitions, LAMBDA q :
            With(lastcall.allruns[r], LAMBDA run :
                /\ run.partition = q
                /\ k = 0 => /\ run.after = 0
                            /\ run.lastrun =
                                   np_split(lastcall.coords, lastcall.npartitions)[q + 1]
                /\ k >= 1 => /\ run.after = (k - 1) * lastcall.npartitions + q + 1
                             /\ lastcall.allruns[run.after].partition = q
                             /\ run.stepoffset = k * lastcall.nsteps_per
                /\ run.done =>
                       run.result =
                           vmc(IF k = 0
                               THEN np_split(lastcall.coords, lastcall.npartitions)[q + 1]
                               ELSE lastcall.allruns[r - lastcall.npartitions].result,
                               lastcall.nsteps_per))))
       /\ (lastcall.pc = "returned" /\ ~ret.raised) =>
            ret.coords = Flatten(Tup([q \in 1..lastcall.npartitions |->
                lastcall.allruns[(niterations(lastcall.nsteps, lastcall.nsteps_per) - 1)
                                 * lastcall.npartitions + q].result]))

\* two partitions and at least two epochs have returned
C25_SecondEpochReturned ==
    /\ lastcall.op = "distvmc"
    /\ lastcall.pc = "returned"
    /\ ~ret.raised
    /\ lastcall.npartitions = 2
    /\ Len(lastcall.allruns) >= 4
    /\ lastcall.allruns[4].after = 2
    /\ ret.coords[2].id = 2

\* C26: distvmc returns only after every submitted task is done; the
\* returned df then contains the records of every task exactly once, in
\* submission order (epochs in order, partitions in order within an epoch),
\* however many polling rounds were needed.
C26_ReturnsEveryRecordOnce ==
    (lastcall.op = "distvmc" /\ lastcall.pc = "returned" /\ ~ret.raised)
    => /\ \A r \in 1..Len(lastcall.allruns) : lastcall.allruns[r].done
       /\ ret.df = Flatten(Tup([r \in 1..Len(lastcall.allruns) |->
                       vmc_records(r, lastcall.allruns[r])]))

\* the call returns only after every submitted task is done
C26_ReturnsAfterEveryTask ==
    (lastcall.op = "distvmc" /\ lastcall.pc = "returned")
    => \A r \in 1..Len(lastcall.allruns) : lastcall.allruns[r].done

\* every call comes to its end, by returning or by raising
C26_EventuallyEnds == <>(lastcall.op = "distvmc" /\ lastcall.pc = "returned")

\* every call eventually returns
C26_EventuallyReturns ==
    <>(lastcall.op = "distvmc" /\ lastcall.pc = "returned" /\ ~ret.raised)

(***************************************************************************)
(* Properties of dist_lm_sampler (checked under SpecLM)                    *)
(***************************************************************************)
\* C24: dist_lm_sampler returns one dict per parameter step, in step order;
\* for step s each of dpH, dppsi, dpidpj and total is the concatenation, in
\* partition order, of the partitions' results for step s, and the dict of
\* an earlier step is not overwritten by later steps.
C24_OneDictPerStep ==
    (lastcall.op = "dist_lm_sampler" /\ lastcall.pc = "returned")
    => /\ Len(ret) = Len(lastcall.params)
       /\ \A s \in 1..Len(ret) : \A k \in LMKeys :
            ret[s][k] = Flatten(Tup([q \in 1..lastcall.npartitions |->
                lm_sampler(np_split(lastcall.configs, lastcall.npartitions)[q],
                           lastcall.params)[s][k]]))

\* two steps on two partitions of two configurations each were returned
C24_TwoStepsTwoPartitions ==
    /\ lastcall.op = "dist_lm_sampler"
    /\ lastcall.pc = "returned"
    /\ lastcall.npartitions = 2
    /\ Len(ret) = 2
    /\ ret[1]["dpH"][3] = [key |-> "dpH", config |-> 3, step |-> 2]
    /\ ret[2]["total"][4] = [key |-> "total", config |-> 4, step |-> 1]

(***************************************************************************)
(* Properties of batches of configurations (checked under SpecBatch)       *)
(***************************************************************************)
\* the full evaluation of the single configuration xyz
AloneState(xyz) == value[jax_parameters, xyz]

\* the ratio testvalue gives for electron e moved to x in the single
\* configuration xyz
AloneRatio(e, xyz, x) ==
    IF SpinOf(e) = 0
    THEN testvalue_up("value", self_expansion, jax_parameters,
                      AloneState(xyz).dets_up, AloneState(xyz).dets_down,
                      SpinIndex(e), x).ratio[1]
    ELSE testvalue_down("value", self_expansion, jax_parameters,
                        AloneState(xyz).dets_up, AloneState(xyz).dets_down,
                        SpinIndex(e), x).ratio[1]

\* C12: configurations do not interfere.  After recompute or updateinternals
\* the cached sign, log-magnitude and per-spin states (with the inverses) of
\* configuration i are those of configuration i evaluated alone, and the
\* ratio testvalue returns for configuration i is the one it gives for
\* configuration i alone, whatever the other configurations are.
C12_ConfigurationsDoNotInterfere ==
    /\ cached.xyz # None
       => \A i \in 1..Len(cached.xyz) :
              /\ _sign[i] = AloneState(cached.xyz[i]).sign
              /\ _logabs[i] = AloneState(cached.xyz[i]).logabs
              /\ _dets_up[i] = AloneState(cached.xyz[i]).dets_up
              /\ _dets_down[i] = AloneState(cached.xyz[i]).dets_down
    /\ (Proposed /\ lastcall.e \in Electrons)
       => ret[1] = MaskSelect(Tup([i \in 1..Len(cached.xyz) |->
                       AloneRatio(lastcall.e, cached.xyz[i], lastcall.epos[i])]),
                              lastcall.mask)

\* C12 witness: a proposal has returned for a batch whose first configuration
\* is away from the node and whose second configuration is singular
C12_SingularNeighbour ==
    /\ Proposed
    /\ lastcall.e \in Electrons
    /\ Len(cached.xyz) = 2
    /\ _sign[1] \in {One, Neg(One)}
    /\ _dets_up[2].sign[1] = Zero

(***************************************************************************)
(* Properties of concurrent calls (checked under SpecThreads)              *)
(***************************************************************************)
\* C13: state updates are atomic for a concurrent reader.  The per-spin states
\* a reader passes to the ratio formula while recompute (or updateinternals,
\* which calls it) replaces the cache belong to the same version of the
\* state: both were stored by the same recompute call.
C13_ReaderSeesOneVersion ==
    threads.reader.pc = "call"
        => threads.reader.seen_up = threads.reader.seen_down

(***************************************************************************)
(* Properties of _sherman_morrison_row (checked under SpecSM)              *)
(***************************************************************************)
\* m with row e (0-based) replaced by row
ReplaceRow(m, e, row) == [m EXCEPT ![e + 1] = row]

\* C6: for an invertible M with exact inverse, an electron index e and a new
\* orbital row whose update ratio is nonzero, _sherman_morrison_row returns
\* exactly the inverse of M with row e replaced by the new row restricted to
\* the determinant's orbitals, and the entries of the result belonging to
\* electron e are the old inverse's entries for e divided by the ratio.
C6_ShermanMorrisonExactInverse ==
    (lastcall.op = "_sherman_morrison_row" /\ ret.ratio # Zero)
    => /\ ret.invnew = Inv(ReplaceRow(lastcall.M, lastcall.e,
                                      Take(lastcall.mos, lastcall.determinant)))
       /\ Column(ret.invnew, lastcall.e)
              = Tup([k \in 1..Len(lastcall.M) |->
                        Div(Inv(lastcall.M)[k][lastcall.e + 1], ret.ratio)])

\* C6 witness: a 2 x 2 inverse has been updated with a ratio other than 0
\* and 1, so the updated inverse differs from the old one
C6_RowUpdated ==
    /\ lastcall.op = "_sherman_morrison_row"
    /\ Len(lastcall.M) = 2
    /\ ret.ratio \notin {Zero, One}
    /\ ret.invnew # Inv(lastcall.M)

\* C15: the ratio returned by _sherman_morrison_row equals the ratio that
\* _determinant_lemma computes from the same orbitals, inverse, determinant
\* and electron index.
C15_RatioIsLemmaRatio ==
    lastcall.op = "_sherman_morrison_row"
    => ret.ratio = _determinant_lemma(lastcall.mos, Inv(lastcall.M),
                                      lastcall.determinant, lastcall.e)

\* C15 witness: an update of a 2 x 2 inverse that is not symmetric, with a
\* ratio other than 0 that the row of the inverse would not have given
C15_ColumnRatio ==
    /\ lastcall.op = "_sherman_morrison_row"
    /\ Len(lastcall.M) = 2
    /\ ret.ratio # Zero
    /\ ret.ratio # Dot(Take(lastcall.mos, lastcall.determinant),
                       Inv(lastcall.M)[lastcall.e + 1])

(***************************************************************************)
(* Properties of evaluate_expansion (checked under SpecEval)               *)
(***************************************************************************)
\* S = sum over CI terms of ci * sign_up * sign_down * exp(logabs_up + logabs_down)
TermSum(ci_coeff, dets_up, dets_down, expansion) ==
    SumSeq(Tup([i \in 1..Len(expansion.mapping_up) |->
        Mul(Mul(ci_coeff[i], combine_signdets(dets_up, dets_down, expansion)[i]),
            Exp(combine_logdets(dets_up, dets_down, expansion)[i]))]))

\* C8: evaluate_expansion returns sign = sign(S) and log-magnitude = log|S|
\* for the sum S of the CI terms, whatever the reference shift.
C8_CombinerResult ==
    lastcall.op = "evaluate_expansion"
        => With(TermSum(lastcall.det_params.ci_coeff, ret.dets_up, ret.dets_down,
                        lastcall.expansion), LAMBDA S :
               /\ ret.sign = SignOf(S)
               /\ ret.logabs = Log(AbsOf(S)))

\* C9: for one up determinant, one down determinant and the single CI
\* coefficient 1.0, evaluate_expansion returns sign = sign_up * sign_down and
\* log-magnitude = logabs_up + logabs_down; the reference is the term's
\* log-magnitude and the shifted exponent is 0.
C9_SingleDeterminantReduction ==
    (lastcall.op = "evaluate_expansion"
        /\ lastcall.expansion = SingleDeterminant
        /\ lastcall.det_params.ci_coeff = <<One>>)
    => With(combine_logdets(ret.dets_up, ret.dets_down, lastcall.expansion),
            LAMBDA logdets :
           /\ ret.sign = Mul(ret.dets_up.sign[1], ret.dets_down.sign[1])
           /\ ret.logabs = LAdd(ret.dets_up.logabsdet[1], ret.dets_down.logabsdet[1])
           /\ LMax(logdets) = logdets[1]
           /\ LSub(logdets[1], LMax(logdets)) = Log(One))

\* l <= 0 for a log-domain value l (false for NaN)
NonPositive(l) == l.log # NaN /\ ~Less(One, l.log)

\* the log-magnitudes of the new terms in testvalue_up / testvalue_down, one
\* list per derivative component: the moved spin's new log-magnitudes plus the
\* other spin's cached ones
NewLogdets(c) ==
    With(IF c.op = "testvalue_up"
         THEN moved_logabs(
                  Tup([k \in 1..Len(orbital_rows(c.kind, c.det_params.mo_coeff_alpha, c.x)) |->
                      vmap_lemma(orbital_rows(c.kind, c.det_params.mo_coeff_alpha, c.x)[k],
                                 c.state.dets_up.inverse,
                                 c.expansion.determinants_up, c.e)]),
                  c.state.dets_up)
         ELSE moved_logabs(
                  Tup([k \in 1..Len(orbital_rows(c.kind, c.det_params.mo_coeff_beta, c.x)) |->
                      vmap_lemma(orbital_rows(c.kind, c.det_params.mo_coeff_beta, c.x)[k],
                                 c.state.dets_down.inverse,
                                 c.expansion.determinants_down, c.e)]),
                  c.state.dets_down),
         LAMBDA newlogabs :
        Tup([k \in 1..Len(newlogabs) |->
            Tup([i \in 1..Len(c.expansion.mapping_up) |->
                IF c.op = "testvalue_up"
                THEN LAdd(Take(newlogabs[k], c.expansion.mapping_up)[i],
                          Take(c.state.dets_down.logabsdet, c.expansion.mapping_down)[i])
                ELSE LAdd(Take(c.state.dets_up.logabsdet, c.expansion.mapping_up)[i],
                          Take(newlogabs[k], c.expansion.mapping_down)[i])])]))

\* C14: the reference shift bounds the exponents.  In evaluate_expansion every
\* exponent logdets[i] - ref is <= 0 and at least one is 0; in testvalue_up and
\* testvalue_down, with ref the maximum over the new and the old term
\* log-magnitudes, every exponent of the new terms (all derivative
\* components) and of the old terms is <= 0.
C14_ShiftedExponentsNonPositive ==
    /\ lastcall.op = "evaluate_expansion"
       => With(combine_logdets(ret.dets_up, ret.dets_down, lastcall.expansion),
               LAMBDA logdets :
              /\ \A i \in 1..Len(logdets) :
                     NonPositive(LSub(logdets[i], LMax(logdets)))
              /\ \E i \in 1..Len(logdets) :
                     LSub(logdets[i], LMax(logdets)) = Log(One))
    /\ lastcall.op \in {"testvalue_up", "testvalue_down"}
       => With(combine_logdets(lastcall.state.dets_up, lastcall.state.dets_down,
                               lastcall.expansion), LAMBDA logdets_old :
          With(Flatten(NewLogdets(lastcall)), LAMBDA logdets :
              \A i \in 1..Len(logdets \o logdets_old) :
                  NonPositive(LSub((logdets \o logdets_old)[i],
                                   LMax(logdets \o logdets_old)))))

====
